---- MODULE Spec2Model ----
(***************************************************************************)
(* Verification model of minipath: the tile scheduler and worker pool of   *)
(* src/src/renderer/machinery.rs, the BVH traversal of                     *)
(* src/src/scene/triangle_bvh/ray_bvh_intersection.rs, the BVH builder of  *)
(* building.rs, the node links of mod.rs, the box compression of           *)
(* compressed_geometry.rs, the spiral iterator of src/src/screen_block.rs  *)
(* and src/src/parallel_for_each.rs.                                       *)
(***************************************************************************)
EXTENDS Integers, Naturals, Sequences, FiniteSets, TLC

(* ------------------------------ bounds --------------------------------- *)
MaxWorkers == 2
MaxTiles == 2
MaxClock == 1
MaxT == 2
MaxSlack == 1

NoTile == -1
NoWorker == 0
NoDuration == -1

VARIABLES
    worker_count,     \* cores.len()
    tile_count,       \* state.tile_ordering.len()
    next_tile_index,  \* RenderState::next_tile_index (AtomicUsize)
    image_lock,       \* holder of the RenderState::image mutex
    image_poisoned,   \* poison flag of the image mutex
    image,            \* number of times each tile was copied into the image
    end,              \* RenderState::end, (threads_done, finish_duration)
    end_lock,         \* holder of the RenderState::end mutex
    clock,            \* Instant::now() - start_time
    pc,               \* position of every worker thread
    tile,             \* worker local `tile`
    new_tile_id,      \* worker local `new_tile_id`
    new_tile,         \* worker local `new_tile`
    elapsed_local,    \* worker local `elapsed`
    mainpc,           \* position of the thread that owns the RenderProgress
    joined,           \* number of handles wait() has drained and joined
    hist              \* observation log (what the callbacks and the caller saw)

rvars == <<worker_count, tile_count, next_tile_index, image_lock,
           image_poisoned, image, end, end_lock, clock, pc, tile,
           new_tile_id, new_tile, elapsed_local, mainpc, joined, hist>>

VARIABLES
    bvh,              \* the TriangleBvh, with what the ray sees of its geometry
    stack,            \* StackCache::stack
    best,             \* local `best` of intersect / intersect_recursive
    result,           \* the Option<HitRecord> returned by intersect
    pruned,           \* number of popped stack entries that were discarded
    tpc               \* position inside Object::intersect

tvars == <<bvh, stack, best, result, pruned, tpc>>

VARIABLES
    builder     \* TriangleBvh::build under way, a record of the fields below

(* the `triangles` slice that build reorders in place *)
triangles == builder.triangles
(* TriangleBvh::inner_nodes, triangle_geometry, triangle_shading_data, root *)
inner_nodes == builder.inner_nodes
triangle_geometry == builder.triangle_geometry
triangle_shading_data == builder.triangle_shading_data
root == builder.root
(* the build_recursive call about to run *)
call == builder.call
(* the build_inner_node activations, innermost last *)
frames == builder.frames
(* locals of split_triangles: bin_count, bins, groups *)
split == builder.split
(* the link the last build_recursive call returned *)
ret == builder.ret
(* position inside TriangleBvh::build *)
bpc == builder.bpc

bvars == <<builder>>

VARIABLES
    round_trip  \* a link on its way through a CompressedNodeLink8

(* the link asked for: kind, raw index, count *)
link_req == round_trip.req
(* the NodeLink the constructor returned *)
link_in == round_trip.link
(* the CompressedNodeLink8 and the lane replace wrote *)
link8 == round_trip.links
link_lane == round_trip.lane
(* extract of every lane *)
link_out == round_trip.decoded
(* position in the round trip *)
lpc == round_trip.pc

lvars == <<round_trip>>

VARIABLES
    box_trip    \* one lane of a box on its way through a RelativeBox8

(* one axis of the enclosing box: min, max, size *)
enclosing_box == box_trip.enclosing_box
(* one axis of one lane of the box to compress, and the lane's mask bit *)
lane_box == box_trip.b
box_mask == box_trip.mask
(* the lane of the RelativeBox8: min, max as 16 bit words *)
relative_box == box_trip.relative
(* the lane of the decompressed box: min, max *)
decompressed == box_trip.decompressed
(* position in the compression round trip *)
fpc == box_trip.pc

fvars == <<box_trip>>

VARIABLES
    spiral_loop \* a loop over block.spiral_chunks(chunk_size)

(* the block and the chunk size spiral_chunks is called with *)
chunks_of == spiral_loop.of
(* the SpiralChunks iterator *)
spiral == spiral_loop.iterator
(* the blocks next() has returned so far *)
yielded == spiral_loop.yielded
(* position of the loop over the iterator *)
spc == spiral_loop.pc

svars == <<spiral_loop>>

VARIABLES
    pfe         \* a call of parallel_for_each, a record of the fields below

(* arguments of parallel_for_each: item count, worker count *)
pfe_in == pfe.args
(* the State behind the mutex: iterator, threads_running *)
pfe_state == pfe.state
(* position of every worker thread, the item it holds, what it returned *)
pfe_pc == pfe.pc
pfe_item == pfe.item
pfe_ret == pfe.ret
(* position of the calling thread and what parallel_for_each returned *)
pfe_main == pfe.main
pfe_result == pfe.result
(* history: invocations begun and completed, callbacks, the number of errors
   returned and the first of them *)
pfe_hist == pfe.hist

pvars == <<pfe>>

xvars == <<bvars, lvars, fvars, svars, pvars>>

(* what the builder, the link round trip, the box round trip and the spiral
   iterator leave alone *)
build_rest == <<rvars, tvars, lvars, fvars, svars, pvars>>
link_rest == <<rvars, tvars, bvars, fvars, svars, pvars>>
box_rest == <<rvars, tvars, bvars, lvars, svars, pvars>>
spiral_rest == <<rvars, tvars, bvars, lvars, fvars, pvars>>
pfe_rest == <<rvars, tvars, bvars, lvars, fvars, svars>>

vars == <<rvars, tvars, xvars>>

AllWorkers == 1..MaxWorkers
Workers == 1..worker_count
Tiles == 0..(tile_count - 1)

Cap2(n) == IF n >= 2 THEN 2 ELSE n

(* usize::saturating_sub *)
saturating_sub(a, b) == IF a >= b THEN a - b ELSE 0

(* faulty variant: the index is read but not advanced *)
fetch_add_load_only(n) == n

(* AtomicUsize::fetch_add(1): the value left in the atomic *)
fetch_add(n) == n + 1

(* Vec::get: Some(tile) for an index inside the tile vector, else None *)
tile_ordering_get(id) == IF id >= 0 /\ id < tile_count THEN id ELSE NoTile

(* faulty variant: the worker count is not subtracted *)
progress_raw_index ==
    [finished |-> next_tile_index,
     total    |-> tile_count]

(* RenderProgress::progress *)
progress ==
    [finished |-> saturating_sub(next_tile_index, worker_count),
     total    |-> tile_count]

(* RenderProgress::is_finished *)
is_finished == \A w \in Workers : pc[w] \in {"done", "returned", "panicked"}

(* RenderProgress::elapsed *)
elapsed ==
    IF end.finish_duration # NoDuration THEN end.finish_duration ELSE clock

NoBvh == [root |-> [kind |-> "Null"]]
NoBest == [t |-> 0, triangle_index |-> -1]
NoResult == [kind |-> "Pending"]

HistInit ==
    [dispatched    |-> [t \in 0..(MaxTiles - 1) |-> 0],
     started       |-> [t \in 0..(MaxTiles - 1) |-> 0],
     finished      |-> [t \in 0..(MaxTiles - 1) |-> 0],
     aborted       |-> FALSE,
     early_abort   |-> FALSE,
     late_dispatch |-> FALSE,
     late_started  |-> FALSE,
     late_copied   |-> FALSE]

NoCall == [len |-> -1]
NoSplit == [bin_count |-> 0]
(* split.last_merge before the first merge of a split_triangles call *)
NoMerge == [groups |-> 0, sah_improvement |-> 0]
NoLink == [kind |-> "None"]

(* no build under way *)
BuildIdle == builder = [bpc |-> "idle"]

(* no link round trip under way *)
LinkIdle == round_trip = [pc |-> "idle"]

NoBox == [min |-> 0, max |-> 0]

(* no box round trip under way *)
BoxIdle == box_trip = [pc |-> "idle"]

NoSpiral == [remaining |-> 0]

(* no spiral iteration under way *)
SpiralIdle == spiral_loop = [pc |-> "idle"]

(* parallel_for_each not called *)
PfeIdle == pfe = [main |-> "idle"]

Init ==
    /\ worker_count \in 1..MaxWorkers
    /\ tile_count \in 0..MaxTiles
    /\ next_tile_index = 0
    /\ image_lock = NoWorker
    /\ image_poisoned = FALSE
    /\ image = [t \in 0..(MaxTiles - 1) |-> 0]
    /\ end = [threads_done |-> 0, finish_duration |-> NoDuration]
    /\ end_lock = NoWorker
    /\ clock = 0
    /\ pc = [w \in AllWorkers |-> IF w <= worker_count THEN "spawned" ELSE "absent"]
    /\ tile = [w \in AllWorkers |-> NoTile]
    /\ new_tile_id = [w \in AllWorkers |-> 0]
    /\ new_tile = [w \in AllWorkers |-> NoTile]
    /\ elapsed_local = [w \in AllWorkers |-> 0]
    /\ mainpc = "running"
    /\ joined = 0
    /\ hist = HistInit
    /\ bvh = NoBvh
    /\ stack = <<>>
    /\ best = NoBest
    /\ result = NoResult
    /\ pruned = 0
    /\ tpc = "idle"
    /\ BuildIdle
    /\ LinkIdle
    /\ BoxIdle
    /\ SpiralIdle
    /\ PfeIdle

(* log of one get_next_tile call that returned `got` *)
LogDispatch(got) ==
    IF got = NoTile THEN hist
    ELSE [hist EXCEPT !.dispatched[got] = Cap2(@ + 1),
                      !.late_dispatch = @ \/ hist.aborted]

(* ---------------------------- worker thread ---------------------------- *)

(* faulty variant: the index is checked before it is advanced, so a worker that
   finds no tile leaves without its out-of-range fetch *)
FetchFirstChecked(w) ==
    /\ pc[w] = "spawned"
    /\ LET id == next_tile_index
           got == tile_ordering_get(id)
       IN /\ next_tile_index' = IF got = NoTile THEN id ELSE fetch_add(id)
          /\ tile' = [tile EXCEPT ![w] = got]
          /\ pc' = [pc EXCEPT ![w] = IF got = NoTile THEN "returned" ELSE "tile_started"]
          /\ hist' = LogDispatch(got)
    /\ UNCHANGED <<tvars, xvars, worker_count, tile_count, image_lock, image_poisoned, image,
                   end, end_lock, clock, new_tile_id, new_tile, elapsed_local,
                   mainpc, joined>>

(* machinery.rs:70-72, the first get_next_tile; no tile: early return *)
FetchFirst(w) ==
    /\ pc[w] = "spawned"
    /\ LET id == next_tile_index
           got == tile_ordering_get(id)
       IN /\ next_tile_index' = fetch_add(next_tile_index)
          /\ tile' = [tile EXCEPT ![w] = got]
          /\ pc' = [pc EXCEPT ![w] = IF got = NoTile THEN "returned" ELSE "tile_started"]
          /\ hist' = LogDispatch(got)
    /\ UNCHANGED <<tvars, xvars, worker_count, tile_count, image_lock, image_poisoned, image,
                   end, end_lock, clock, new_tile_id, new_tile, elapsed_local,
                   mainpc, joined>>

(* machinery.rs:75, (started_tile_callback)(tile) *)
TileStarted(w) ==
    /\ pc[w] = "tile_started"
    /\ pc' = [pc EXCEPT ![w] = "render_tile"]
    /\ hist' = [hist EXCEPT !.started[tile[w]] = Cap2(@ + 1),
                            !.late_started = @ \/ hist.aborted]
    /\ UNCHANGED <<tvars, xvars, worker_count, tile_count, next_tile_index, image_lock,
                   image_poisoned, image, end, end_lock, clock, tile,
                   new_tile_id, new_tile, elapsed_local, mainpc, joined>>

(* machinery.rs:77-83, worker.render_tile into the private buffer *)
RenderTile(w) ==
    /\ pc[w] = "render_tile"
    /\ pc' = [pc EXCEPT ![w] = "lock_image"]
    /\ UNCHANGED <<tvars, xvars, worker_count, tile_count, next_tile_index, image_lock,
                   image_poisoned, image, end, end_lock, clock, tile,
                   new_tile_id, new_tile, elapsed_local, mainpc, joined, hist>>

(* machinery.rs:84-87, state.image.lock().expect("Poisoned lock!") *)
LockImage(w) ==
    /\ pc[w] = "lock_image"
    /\ image_lock = NoWorker
    /\ IF image_poisoned
       THEN /\ pc' = [pc EXCEPT ![w] = "panicked"]
            /\ UNCHANGED image_lock
       ELSE /\ pc' = [pc EXCEPT ![w] = "copy_from"]
            /\ image_lock' = w
    /\ UNCHANGED <<tvars, xvars, worker_count, tile_count, next_tile_index, image_poisoned,
                   image, end, end_lock, clock, tile, new_tile_id, new_tile,
                   elapsed_local, mainpc, joined, hist>>

(* faulty variant: the guard is bound to a local that lives on after the blit *)
ImageGuardKept(w) == w

(* the guard of the image mutex is a temporary of the statement at
   machinery.rs:84-95: it is dropped when the statement ends *)
ImageGuardAfterCopy(w) == NoWorker

(* machinery.rs:88-95, copy_from under the lock, then the guard is dropped *)
CopyFrom(w) ==
    /\ pc[w] = "copy_from"
    /\ image_lock = w
    /\ image' = [image EXCEPT ![tile[w]] = Cap2(@ + 1)]
    /\ image_lock' = ImageGuardAfterCopy(w)
    /\ pc' = [pc EXCEPT ![w] = "get_next_tile"]
    /\ hist' = [hist EXCEPT !.late_copied = @ \/ hist.aborted]
    /\ UNCHANGED <<tvars, xvars, worker_count, tile_count, next_tile_index, image_poisoned,
                   end, end_lock, clock, tile, new_tile_id, new_tile,
                   elapsed_local, mainpc, joined>>

(* machinery.rs:97, let (new_tile_id, new_tile) = state.get_next_tile() *)
GetNextTile(w) ==
    /\ pc[w] = "get_next_tile"
    /\ LET id == next_tile_index
           got == tile_ordering_get(id)
       IN /\ next_tile_index' = fetch_add(next_tile_index)
          /\ new_tile_id' = [new_tile_id EXCEPT ![w] = id]
          /\ new_tile' = [new_tile EXCEPT ![w] = got]
          /\ hist' = LogDispatch(got)
    /\ pc' = [pc EXCEPT ![w] = "tile_finished"]
    /\ UNCHANGED <<tvars, xvars, worker_count, tile_count, image_lock, image_poisoned, image,
                   end, end_lock, clock, tile, elapsed_local, mainpc, joined>>

(* faulty variant: the fetched index itself is reported *)
snapshot_of_index(w) ==
    [finished |-> new_tile_id[w],
     total    |-> tile_count]

(* the snapshot handed to finished_tile_callback, machinery.rs:101-104 *)
snapshot(w) ==
    [finished |-> saturating_sub(new_tile_id[w], worker_count),
     total    |-> tile_count]

(* faulty variant: the match on new_tile comes first, so the break skips
   the callback of the worker's last tile *)
TileFinishedAfterMatch(w) ==
    /\ pc[w] = "tile_finished"
    /\ IF new_tile[w] # NoTile
       THEN /\ tile' = [tile EXCEPT ![w] = new_tile[w]]
            /\ pc' = [pc EXCEPT ![w] = "tile_started"]
            /\ hist' = [hist EXCEPT !.finished[tile[w]] = Cap2(@ + 1)]
       ELSE /\ pc' = [pc EXCEPT ![w] = "elapsed"]
            /\ UNCHANGED <<tile, hist>>
    /\ UNCHANGED <<tvars, xvars, worker_count, tile_count, next_tile_index, image_lock,
                   image_poisoned, image, end, end_lock, clock, new_tile_id,
                   new_tile, elapsed_local, mainpc, joined>>

(* machinery.rs:99-110, (finished_tile_callback)(tile, snapshot), then the
   match on new_tile: next iteration or break *)
TileFinished(w) ==
    /\ pc[w] = "tile_finished"
    /\ hist' = [hist EXCEPT !.finished[tile[w]] = Cap2(@ + 1)]
    /\ IF new_tile[w] # NoTile
       THEN /\ tile' = [tile EXCEPT ![w] = new_tile[w]]
            /\ pc' = [pc EXCEPT ![w] = "tile_started"]
       ELSE /\ pc' = [pc EXCEPT ![w] = "elapsed"]
            /\ UNCHANGED tile
    /\ UNCHANGED <<tvars, xvars, worker_count, tile_count, next_tile_index, image_lock,
                   image_poisoned, image, end, end_lock, clock, new_tile_id,
                   new_tile, elapsed_local, mainpc, joined>>

(* machinery.rs:113, let elapsed = Instant::elapsed(&state.start_time) *)
ReadElapsed(w) ==
    /\ pc[w] = "elapsed"
    /\ elapsed_local' = [elapsed_local EXCEPT ![w] = clock]
    /\ pc' = [pc EXCEPT ![w] = "lock_end"]
    /\ UNCHANGED <<tvars, xvars, worker_count, tile_count, next_tile_index, image_lock,
                   image_poisoned, image, end, end_lock, clock, tile,
                   new_tile_id, new_tile, mainpc, joined, hist>>

(* machinery.rs:114, state.end.lock().unwrap() *)
LockEnd(w) ==
    /\ pc[w] = "lock_end"
    /\ end_lock = NoWorker
    /\ end_lock' = w
    /\ pc' = [pc EXCEPT ![w] = "latch"]
    /\ UNCHANGED <<tvars, xvars, worker_count, tile_count, next_tile_index, image_lock,
                   image_poisoned, image, end, clock, tile, new_tile_id,
                   new_tile, elapsed_local, mainpc, joined, hist>>

(* machinery.rs:116-120, the end latch, then the guard is dropped *)
Latch(w) ==
    /\ pc[w] = "latch"
    /\ end_lock = w
    /\ LET n == end.threads_done + 1
       IN end' = [threads_done |-> n,
                  finish_duration |->
                      IF n = worker_count THEN elapsed_local[w]
                      ELSE end.finish_duration]
    /\ end_lock' = NoWorker
    /\ pc' = [pc EXCEPT ![w] = "done"]
    /\ UNCHANGED <<tvars, xvars, worker_count, tile_count, next_tile_index, image_lock,
                   image_poisoned, image, clock, tile, new_tile_id, new_tile,
                   elapsed_local, mainpc, joined, hist>>

(* a panic inside a callback, inside render_tile or inside the blit; the
   thread unwinds: a held image guard is dropped and poisons the mutex, the
   code after the loop (the end latch) is not run *)
Panic(w) ==
    /\ pc[w] \in {"tile_started", "render_tile", "copy_from", "tile_finished"}
    /\ pc' = [pc EXCEPT ![w] = "panicked"]
    /\ IF image_lock = w
       THEN image_lock' = NoWorker /\ image_poisoned' = TRUE
       ELSE UNCHANGED <<image_lock, image_poisoned>>
    /\ UNCHANGED <<tvars, xvars, worker_count, tile_count, next_tile_index, image, end,
                   end_lock, clock, tile, new_tile_id, new_tile, elapsed_local,
                   mainpc, joined, hist>>

WorkerStep(w) ==
    \/ FetchFirst(w)
    \/ TileStarted(w)
    \/ RenderTile(w)
    \/ LockImage(w)
    \/ CopyFrom(w)
    \/ GetNextTile(w)
    \/ TileFinished(w)
    \/ ReadElapsed(w)
    \/ LockEnd(w)
    \/ Latch(w)

(* ------------------------- the owner of the handle --------------------- *)

(* faulty variant: off by one, the last index of the tile vector *)
abort_value_last_index == IF tile_count > 0 THEN tile_count - 1 ELSE 0

(* faulty variant: the value read from the index is stored back unchanged *)
abort_value_stale == next_tile_index

(* the value abort() stores, machinery.rs:168-170 *)
abort_value == tile_count

(* RenderProgress::abort *)
Abort ==
    /\ mainpc \in {"running", "waited"}
    /\ next_tile_index' = abort_value
    /\ hist' = [hist EXCEPT
                   !.aborted = TRUE,
                   !.early_abort = @ \/ (\E t \in Tiles : image[t] = 0)]
    /\ UNCHANGED <<tvars, xvars, worker_count, tile_count, image_lock, image_poisoned, image,
                   end, end_lock, clock, pc, tile, new_tile_id, new_tile,
                   elapsed_local, mainpc, joined>>

(* RenderProgress::wait is entered: threads.drain(..) *)
Wait ==
    /\ mainpc = "running"
    /\ mainpc' = "waiting"
    /\ UNCHANGED <<tvars, xvars, worker_count, tile_count, next_tile_index, image_lock,
                   image_poisoned, image, end, end_lock, clock, pc, tile,
                   new_tile_id, new_tile, elapsed_local, joined, hist>>

(* handle.join().unwrap() of the next drained handle, machinery.rs:178 *)
Join ==
    /\ mainpc = "waiting"
    /\ joined < worker_count
    /\ pc[joined + 1] \in {"done", "returned", "panicked"}
    /\ IF pc[joined + 1] = "panicked"
       THEN /\ mainpc' = "wait_panicked"
            /\ joined' = worker_count
       ELSE /\ joined' = joined + 1
            /\ mainpc' = IF joined + 1 = worker_count THEN "waited" ELSE "waiting"
    /\ UNCHANGED <<tvars, xvars, worker_count, tile_count, next_tile_index, image_lock,
                   image_poisoned, image, end, end_lock, clock, pc, tile,
                   new_tile_id, new_tile, elapsed_local, hist>>

(* time passes *)
Tick ==
    /\ clock < MaxClock
    /\ clock' = clock + 1
    /\ UNCHANGED <<tvars, xvars, worker_count, tile_count, next_tile_index, image_lock,
                   image_poisoned, image, end, end_lock, pc, tile,
                   new_tile_id, new_tile, elapsed_local, mainpc, joined, hist>>

(* a render in which no worker panics *)
RunNext ==
    \/ \E w \in Workers : FetchFirst(w)
    \/ \E w \in Workers : TileStarted(w)
    \/ \E w \in Workers : RenderTile(w)
    \/ \E w \in Workers : LockImage(w)
    \/ \E w \in Workers : CopyFrom(w)
    \/ \E w \in Workers : GetNextTile(w)
    \/ \E w \in Workers : TileFinished(w)
    \/ \E w \in Workers : ReadElapsed(w)
    \/ \E w \in Workers : LockEnd(w)
    \/ \E w \in Workers : Latch(w)
    \/ Abort
    \/ Wait
    \/ Join

Next ==
    \/ RunNext
    \/ \E w \in Workers : Panic(w)

Spec == Init /\ [][Next]_vars

(* the render together with the clock that elapsed() reads *)
TimedNext ==
    \/ Next
    \/ Tick

TimedSpec == Init /\ [][TimedNext]_vars

(* ------------------------- BVH link encoding --------------------------- *)
(* src/src/scene/triangle_bvh/mod.rs *)

INNER_NODE_CHILDREN == 8
LEAF_NODE_PACKET_SIZE == 8
COUNT_BITS == 3
INDEX_BITS == 29

(* a u32 link word, kept as its two bit fields: word = index * 8 + count,
   index the 29 high bits and count the COUNT_BITS low bits *)
COUNT_MASK == (2 ^ COUNT_BITS) - 1
INDEX_ONES == (2 ^ INDEX_BITS) - 1
NULL_VALUE == [index |-> INDEX_ONES, count |-> 0]

Lanes == 0..(INNER_NODE_CHILDREN - 1)

RECURSIVE BitOr(_, _)
BitOr(a, b) ==
    IF a = 0 THEN b
    ELSE IF b = 0 THEN a
    ELSE (IF a % 2 = 1 \/ b % 2 = 1 THEN 1 ELSE 0)
             + 2 * BitOr(a \div 2, b \div 2)

(* NodeLink::MAX_INDEX, MIN_COUNT, MAX_COUNT *)
MAX_INDEX == INDEX_ONES - 1
MIN_COUNT == 1
MAX_COUNT == (2 ^ COUNT_BITS) - 1

(* a constructor that panicked instead of returning *)
PanicLink == [kind |-> "Panic"]

(* the check define_index_type puts on every checked conversion of
   InnerNodeIdx / TrianglePackIdx (from_raw, From<u32>, new) *)
index_ok(v) == v <= MAX_INDEX

(* NodeLink::Null, NodeLink::new_inner *)
NullLink == [kind |-> "Null"]
new_inner(index) == [kind |-> "Inner", index |-> index]

(* faulty variant: the two asserts on count are missing *)
new_leaf_unchecked(index, count) ==
    IF ~index_ok(index + count) THEN PanicLink
    ELSE [kind |-> "Leaf", first |-> index, last |-> index + count]

(* NodeLink::new_leaf: the asserts on count, then last = index + count,
   an addition on the index type and so a checked conversion of the sum *)
new_leaf(index, count) ==
    IF count < MIN_COUNT \/ count > MAX_COUNT THEN PanicLink
    ELSE IF ~index_ok(index + count) THEN PanicLink
    ELSE [kind |-> "Leaf", first |-> index, last |-> index + count]

(* the word CompressedNodeLink8::replace stores for a link; `<<` drops the
   bits shifted out of the u32, `|` merges the count into the word *)
link_word(link) ==
    CASE link.kind = "Null"  -> NULL_VALUE
      [] link.kind = "Inner" ->
            [index |-> link.index % (2 ^ INDEX_BITS), count |-> 0]
      [] link.kind = "Leaf"  ->
            LET count == link.last - link.first
            IN [index |-> BitOr(link.first % (2 ^ INDEX_BITS),
                                count \div (2 ^ COUNT_BITS)),
                count |-> count % (2 ^ COUNT_BITS)]

(* CompressedNodeLink8::index and count of one lane *)
link_index(word) == word.index
link_count(word) == word.count

(* CompressedNodeLink8::null_mask, inner_node_mask, leaf_node_mask *)
null_mask(word) == word = NULL_VALUE
inner_node_mask(word) == ~null_mask(word) /\ link_count(word) = 0
leaf_node_mask(word) == link_count(word) > 0

(* TrianglePackIdxRange::new: first .. first + count *)
range_new(first, count) ==
    IF ~index_ok(first + count) THEN PanicLink
    ELSE [kind |-> "Leaf", first |-> first, last |-> first + count]

(* CompressedNodeLink8::extract: the NodeLink of lane i *)
extract(links, i) ==
    LET value == links[i]
    IN IF value = NULL_VALUE THEN NullLink
       ELSE IF link_count(value) = 0
            THEN [kind |-> "Inner", index |-> link_index(value)]
            ELSE range_new(link_index(value), link_count(value))

(* CompressedNodeLink8::replace and CompressedNodeLink8::default *)
replace(links, i, value) == [links EXCEPT ![i] = link_word(value)]
default_links == [i \in Lanes |-> NULL_VALUE]

(* TrianglePackIdx::to_triangle_idx *)
to_triangle_idx(pack, lane) == pack * LEAF_NODE_PACKET_SIZE + lane

(* ----------------------------- BVH traversal --------------------------- *)
(* src/src/scene/triangle_bvh/ray_bvh_intersection.rs.  The ray is fixed;  *)
(* the geometry is kept as what the ray sees of it: for a triangle lane    *)
(* the t of Triangle::intersect (NoHit when its uv mask is off, as for a   *)
(* padding lane), for a child box the (t1, t2) of WorldBox8::intersect.    *)

NoHit == -100
FLOAT_MAX == MaxT + MaxSlack + 2
INFINITY == FLOAT_MAX + 1
NEG_INFINITY == 0 - INFINITY
TriangleIdxDefault == -1

HitVals == {NoHit} \cup (-1..MaxT)

MinOf(S) == CHOOSE x \in S : \A y \in S : x <= y
MaxOf(S) == CHOOSE x \in S : \A y \in S : x >= y
fast_max(a, b) == IF a >= b THEN a ELSE b
fast_min(a, b) == IF a <= b THEN a ELSE b

(* the (t1, t2) a ray gets from a box that contains the hits `ts`: the box
   is entered no later than the first hit and left no earlier than the last *)
BoxAround(ts, slack) ==
    IF ts = {}
    THEN IF slack = 0 THEN <<1, 0>> ELSE <<0 - slack, MaxT>>
    ELSE <<MinOf(ts) - slack, MaxOf(ts)>>

Hits(S) == S \ {NoHit}

Pack2(a, b) == [i \in 0..(LEAF_NODE_PACKET_SIZE - 1) |->
                   IF i = 0 THEN a ELSE IF i = 1 THEN b ELSE NoHit]
MissBox == <<1, 0>>

Node(links, boxes) ==
    [child_links |-> [i \in Lanes |->
                         IF i < Len(links) THEN link_word(links[i + 1])
                         ELSE link_word(NullLink)],
     box_t       |-> [i \in Lanes |->
                         IF i < Len(boxes) THEN boxes[i + 1] ELSE MissBox]]

(* a TriangleBvh without nodes: the root is NodeLink::Null *)
NullBvh ==
    [root |-> NullLink, inner_nodes |-> <<>>, triangle_geometry |-> <<>>]

(* at most 56 triangles: the root is one leaf, here of two packs *)
LeafBvh(a, b, c) ==
    [root |-> new_leaf(0, 2),
     inner_nodes |-> <<>>,
     triangle_geometry |-> <<Pack2(a, b), Pack2(c, NoHit)>>]

(* a root inner node with two inner children and a leaf between them *)
TreeBvh(a, b, c, d, s) ==
    [root |-> new_inner(0),
     inner_nodes |->
        << Node(<<new_inner(1), new_leaf(0, 1), new_inner(2)>>,
                <<BoxAround(Hits({c}), s[1]),
                  BoxAround(Hits({a, b}), s[2]),
                  BoxAround(Hits({d}), s[3])>>),
           Node(<<new_leaf(1, 1)>>, <<BoxAround(Hits({c}), s[4])>>),
           Node(<<NullLink, new_leaf(2, 1)>>,
                <<MissBox, BoxAround(Hits({d}), s[5])>>) >>,
     triangle_geometry |-> <<Pack2(a, b), Pack2(c, NoHit), Pack2(d, NoHit)>>]

(* inner_nodes and triangle_geometry are IndexVecs, indexed from 0 *)
inner_node(n) == bvh.inner_nodes[n + 1]
triangle_pack(j) == bvh.triangle_geometry[j + 1]

LeafBest0 == [t |-> INFINITY, triangle_index |-> TriangleIdxDefault]

(* intersect_leaf, the loop over the lanes of one pack (bit_iter order) *)
RECURSIVE leaf_lanes(_, _, _, _)
leaf_lanes(j, i, max_t, b) ==
    IF i >= LEAF_NODE_PACKET_SIZE THEN b
    ELSE LET t == triangle_pack(j)[i]
             mask == t # NoHit /\ t >= 0 /\ t <= max_t
         IN leaf_lanes(j, i + 1, max_t,
                IF mask /\ t < b.t
                THEN [t |-> t, triangle_index |-> to_triangle_idx(j, i)]
                ELSE b)

(* intersect_leaf, the loop over the packs first..last *)
RECURSIVE leaf_packs(_, _, _, _)
leaf_packs(j, last, max_t, b) ==
    IF j >= last THEN b
    ELSE leaf_packs(j + 1, last, max_t, leaf_lanes(j, 0, max_t, b))

(* TriangleBvh::intersect_leaf *)
intersect_leaf(first, last, max_t) == leaf_packs(first, last, max_t, LeafBest0)

(* faulty variant: a lane hits only when its interval has positive length *)
lane_mask_strict(t1, t2) == t1 < t2

(* InnerNode::intersect_inner, mask: t1.simd_le(t2) *)
lane_mask(t1, t2) == t1 <= t2

(* InnerNode::intersect_inner: per lane the clamped t1 and the mask *)
intersect_inner(n, max_t) ==
    [i \in Lanes |->
        LET t1 == fast_max(inner_node(n).box_t[i][1], 0)
            t2 == fast_min(inner_node(n).box_t[i][2], max_t)
        IN [t1 |-> t1, mask |-> lane_mask(t1, t2)]]

(* intersect_recursive, the loop over leaf_node_child_iter (bit_iter order) *)
RECURSIVE leaf_children(_, _, _, _)
leaf_children(n, res, i, b) ==
    IF i >= INNER_NODE_CHILDREN THEN b
    ELSE LET word == inner_node(n).child_links[i]
         IN IF res[i].mask /\ leaf_node_mask(word)
            THEN LET first == link_index(word)
                     hit == intersect_leaf(first, first + link_count(word), b.t)
                 IN leaf_children(n, res, i + 1, IF hit.t < b.t THEN hit ELSE b)
            ELSE leaf_children(n, res, i + 1, b)

(* inner_node_child_iter: the lanes pushed on the stack *)
inner_children(n, res) ==
    {i \in Lanes : res[i].mask /\ inner_node_mask(inner_node(n).child_links[i])}

(* the orders sort_unstable_by(|a, b| b.2.total_cmp(&a.2)) can leave the
   pushed entries in: descending t1, ties in any order *)
SortedPushes(n, res) ==
    LET C == inner_children(n, res)
        k == Cardinality(C)
    IN {q \in [1..k -> C] :
           /\ \A x, y \in 1..k : x # y => q[x] # q[y]
           /\ \A x, y \in 1..k : x < y => res[q[x]].t1 >= res[q[y]].t1}

(* Object::intersect entry, the match on self.root (lines 46-57) *)
IntersectRoot ==
    /\ tpc = "intersect"
    /\ CASE bvh.root.kind = "Null" ->
              /\ best' = [t |-> FLOAT_MAX, triangle_index |-> TriangleIdxDefault]
              /\ stack' = stack
              /\ tpc' = "finish"
         [] bvh.root.kind = "Inner" ->
              /\ best' = [t |-> FLOAT_MAX, triangle_index |-> TriangleIdxDefault]
              /\ stack' = Append(stack, <<bvh.root.index, NEG_INFINITY>>)
              /\ tpc' = "loop"
         [] bvh.root.kind = "Leaf" ->
              /\ best' = intersect_leaf(bvh.root.first, bvh.root.last, FLOAT_MAX)
              /\ stack' = stack
              /\ tpc' = "finish"
    /\ UNCHANGED <<rvars, xvars, bvh, result, pruned>>

(* intersect_recursive, a popped entry farther than the best hit (114-118) *)
SkipNode ==
    /\ tpc = "loop"
    /\ stack # <<>>
    /\ stack[Len(stack)][2] > best.t
    /\ stack' = SubSeq(stack, 1, Len(stack) - 1)
    /\ pruned' = pruned + 1
    /\ UNCHANGED <<rvars, xvars, bvh, best, result, tpc>>

(* intersect_recursive, one iteration of the loop body (120-137) *)
VisitNode ==
    /\ tpc = "loop"
    /\ stack # <<>>
    /\ stack[Len(stack)][2] <= best.t
    /\ LET n == stack[Len(stack)][1]
           res == intersect_inner(n, best.t)
       IN /\ best' = leaf_children(n, res, 0, best)
          /\ \E q \in SortedPushes(n, res) :
                stack' = SubSeq(stack, 1, Len(stack) - 1) \o
                         [x \in 1..Len(q) |->
                             <<link_index(inner_node(n).child_links[q[x]]),
                               res[q[x]].t1>>]
    /\ UNCHANGED <<rvars, xvars, bvh, result, pruned, tpc>>

(* intersect_recursive returns best when the stack is empty (113, 147) *)
LoopExit ==
    /\ tpc = "loop"
    /\ stack = <<>>
    /\ tpc' = "finish"
    /\ UNCHANGED <<rvars, xvars, bvh, stack, best, result, pruned>>

(* Object::intersect, None or Some(HitRecord) (59-88) *)
IntersectReturn ==
    /\ tpc = "finish"
    /\ result' = IF best.triangle_index = TriangleIdxDefault
                 THEN [kind |-> "None"]
                 ELSE [kind |-> "Some", t |-> best.t,
                       triangle_index |-> best.triangle_index]
    /\ tpc' = "done"
    /\ UNCHANGED <<rvars, xvars, bvh, stack, best, pruned>>

(* no render under way *)
RenderIdle ==
    /\ worker_count = 1
    /\ tile_count = 0
    /\ next_tile_index = 0
    /\ image_lock = NoWorker
    /\ image_poisoned = FALSE
    /\ image = [t \in 0..(MaxTiles - 1) |-> 0]
    /\ end = [threads_done |-> 0, finish_duration |-> NoDuration]
    /\ end_lock = NoWorker
    /\ clock = 0
    /\ pc = [w \in AllWorkers |-> "absent"]
    /\ tile = [w \in AllWorkers |-> NoTile]
    /\ new_tile_id = [w \in AllWorkers |-> 0]
    /\ new_tile = [w \in AllWorkers |-> NoTile]
    /\ elapsed_local = [w \in AllWorkers |-> 0]
    /\ mainpc = "running"
    /\ joined = 0
    /\ hist = HistInit

(* no ray under way *)
TraversalIdle ==
    /\ bvh = NoBvh
    /\ stack = <<>>
    /\ best = NoBest
    /\ result = NoResult
    /\ pruned = 0
    /\ tpc = "idle"

InitBvh ==
    /\ RenderIdle
    /\ \/ bvh = NullBvh
       \/ \E a, b, c \in HitVals : bvh = LeafBvh(a, b, c)
       \/ \E a, b, c, d \in HitVals : \E s \in [1..5 -> 0..MaxSlack] :
              bvh = TreeBvh(a, b, c, d, s)
    /\ stack = <<>>
    /\ best = NoBest
    /\ result = NoResult
    /\ pruned = 0
    /\ tpc = "intersect"
    /\ BuildIdle
    /\ LinkIdle
    /\ BoxIdle
    /\ SpiralIdle
    /\ PfeIdle

NextBvh ==
    \/ IntersectRoot
    \/ SkipNode
    \/ VisitNode
    \/ LoopExit
    \/ IntersectReturn

SpecBvh == InitBvh /\ [][NextBvh]_vars

(* brute force: the t >= 0 of every stored triangle the ray intersects *)
AllHitTs ==
    {bvh.triangle_geometry[j][i] :
        j \in 1..Len(bvh.triangle_geometry),
        i \in 0..(LEAF_NODE_PACKET_SIZE - 1)} \ ({NoHit} \cup {-1})

(* fairness the scheduling gives: every spawned OS thread keeps running, and
   the thread blocked in join() is woken when the joined thread has ended;
   the runs are those in which no worker panics, so that wait() can return;
   a worker step or a join changes the renderer's variables only *)
FairSpec ==
    /\ Init
    /\ [][RunNext]_vars
    /\ \A w \in AllWorkers : WF_rvars(WorkerStep(w))
    /\ WF_rvars(Join)

Panicked == {w \in Workers : pc[w] = "panicked"}

(* ------------------------------ BVH build ------------------------------ *)
(* src/src/scene/triangle_bvh/building.rs.  The geometry is kept on one    *)
(* axis with integer coordinates: a triangle is the three vertices c - 1,  *)
(* c, c + 1 around its centroid c, a box is the interval <<min, max>>, and *)
(* its volume and its surface area are its length.  A decompressed bound   *)
(* is kept at the integer next to it on the outside.                       *)

MaxTriangles == 58
MaxDepth == 2
MaxProbePacks == 2

LEAF_NODE_MAX_TRIANGLES == LEAF_NODE_PACKET_SIZE * MAX_COUNT
U16_MAX == (2 ^ 16) - 1
COORD_INFINITY == 2 ^ 20

div_ceil(a, b) == (a + b - 1) \div b

(* a sequence, or a function, with every element evaluated once *)
seq_of(s) == SubSeq(s, 1, Len(s))
fun_of(f) == f @@ <<>>
clamp(x, lo, hi) == IF x < lo THEN lo ELSE IF x > hi THEN hi ELSE x

(* the input meshes: the centroid of triangle i in layout l *)
Layouts == 1..7
Layout(l, i) ==
    CASE l = 1 -> 100
      [] l = 2 -> IF i % 2 = 0 THEN 100 ELSE 5000
      [] l = 3 -> IF i % 3 = 0 THEN 100 ELSE IF i % 3 = 1 THEN 2000 ELSE 5000
      [] l = 4 -> IF i = 1 THEN 9000 ELSE 100 + 4 * (i % 2)
      [] l = 5 -> 100 + 400 * (i % 10)
      [] l = 6 -> IF i <= 9 THEN 10 ELSE IF i <= 16 THEN 11 ELSE 100
      [] l = 7 -> IF i = 1 THEN 1
                  ELSE IF i <= 3 THEN 10 + i
                  ELSE IF i <= 9 THEN 31 + 18 * (i - 4)
                  ELSE 11

(* Triangle<usize> with the positions of its three vertices *)
vertices_of(t) == {t.c - 1, t.c, t.c + 1}

(* Triangle::centroid *)
centroid(t) == ((t.c - 1) + t.c + (t.c + 1)) \div 3

(* AABB::default, from_points, union, size, volume, surface_area *)
default_box == <<COORD_INFINITY, 0 - COORD_INFINITY>>
from_points(S) == IF S = {} THEN default_box ELSE <<MinOf(S), MaxOf(S)>>
box_union(a, b) == <<fast_min(a[1], b[1]), fast_max(a[2], b[2])>>
box_size(b) == b[2] - b[1]
surface_area(b) == box_size(b)

(* vertices_iter over a slice of triangles *)
vertices_iter(ts) == UNION {vertices_of(ts[i]) : i \in 1..Len(ts)}

(* UnitInterval8::compress_internal of (p - min) / size with floor, ceil and
   round, for a lane whose mask is on *)
compress_floor(p, box) ==
    clamp(((p - box[1]) * U16_MAX) \div box_size(box), 0, U16_MAX)
compress_ceil(p, box) ==
    clamp(div_ceil((p - box[1]) * U16_MAX, box_size(box)), 0, U16_MAX)
compress_round(p, box) ==
    clamp(((p - box[1]) * U16_MAX * 2 + box_size(box)) \div (2 * box_size(box)),
          0, U16_MAX)

(* RelativeBox8::compress_round_out of one lane *)
compress_round_out(b, box) == <<compress_floor(b[1], box), compress_ceil(b[2], box)>>

(* RelativeBox8::decompress of one lane: min + size * u / 65535 *)
decompress_box(rb, box) ==
    <<box[1] + (rb[1] * box_size(box)) \div U16_MAX,
      box[1] + div_ceil(rb[2] * box_size(box), U16_MAX)>>

(* RelativeTriangle8::compress of one lane; `id` is the input triangle the
   lane was made from, 0 for a lane the mask of simd_windows left out *)
compress_triangle(t, box) ==
    [p  |-> <<compress_round(t.c - 1, box), compress_round(t.c, box),
              compress_round(t.c + 1, box)>>,
     id |-> t.id]
zero_lane == [p |-> <<0, 0, 0>>, id |-> 0]

(* RelativePoint8::is_zero on the three points of a lane *)
is_zero(lane) == lane.p = <<0, 0, 0>>

(* TriangleShadingData and its Default *)
shading_of(t) == [vertex_indices |-> t.id, is_default |-> FALSE]
default_shading == [vertex_indices |-> 0, is_default |-> TRUE]

(* InnerNode::default, the placeholder build_inner_node pushes *)
placeholder_node == [placeholder |-> TRUE]

(* BinGrid::with_approximate_bin_count and bin_index *)
bin_count_of(len) == clamp(len \div 64, 128, 1024)
bin_index(p, box, bin_count) == ((p - box[1]) * bin_count) \div box_size(box)

(* the sub-slice triangles[off .. off + len] *)
slice(off, len) == SubSeq(triangles, off + 1, off + len)

(* SplittingBin::sah, four times its value so that C_LEAF_PACKET = 0.75
   stays an integer; a leaf of more than MAX_COUNT packets costs infinity,
   and the minimum with the finite tree cost is then the tree cost *)
RECURSIVE log8_floor(_)
log8_floor(p) == IF p < INNER_NODE_CHILDREN THEN 0
                 ELSE 1 + log8_floor(p \div INNER_NODE_CHILDREN)
sah(g) ==
    LET packet_count == div_ceil(g.count, LEAF_NODE_PACKET_SIZE)
        depth == log8_floor(packet_count)
        tree_cost == 4 * depth
                       + 3 * div_ceil(packet_count, INNER_NODE_CHILDREN ^ depth)
        leaf_cost == 3 * packet_count
        cost == IF packet_count <= MAX_COUNT
                THEN fast_min(leaf_cost, tree_cost) ELSE tree_cost
    IN surface_area(g.bounding_box) * cost

(* SplittingBin::merge *)
merge(g1, g2) ==
    [bounding_box |-> box_union(g1.bounding_box, g2.bounding_box),
     count        |-> g1.count + g2.count,
     parent       |-> g1.parent]

(* find_best_bin_merge: the first pair, in the order of the two loops, with
   the largest improvement *)
sah_improvement(groups, i1, i2) ==
    sah(groups[i1]) + sah(groups[i2]) - sah(merge(groups[i1], groups[i2]))
find_best_bin_merge(groups) ==
    LET P == {q \in (1..Len(groups)) \X (1..Len(groups)) : q[1] < q[2]}
        best_sah_improvement ==
            MaxOf({sah_improvement(groups, q[1], q[2]) : q \in P})
        Best == {q \in P :
                    sah_improvement(groups, q[1], q[2]) = best_sah_improvement}
        best_i1 == MinOf({q[1] : q \in Best})
        best_i2 == MinOf({q[2] : q \in {b \in Best : b[1] = best_i1}})
    IN [i1 |-> best_i1, i2 |-> best_i2,
        sah_improvement |-> best_sah_improvement]

(* the bins of split_triangles after the loop over the triangles *)
filled_bins(ts, box, bin_count) ==
    fun_of([b \in 0..(bin_count - 1) |->
        LET mine == SelectSeq(ts, LAMBDA t : bin_index(centroid(t), box, bin_count) = b)
        IN [bounding_box |-> from_points(vertices_iter(mine)),
            count        |-> Len(mine),
            parent       |-> b]])

(* the bins with count > 0, in index order *)
nonempty_bins(bins) ==
    LET S == {b \in DOMAIN bins : bins[b].count > 0}
    IN [i \in 1..Cardinality(S) |->
           bins[CHOOSE b \in S : Cardinality({x \in S : x < b}) = i - 1]]

(* the disjoint-set walk of the sort key: the root of bin i *)
RECURSIVE find_root(_, _)
find_root(bins, i) ==
    IF bins[i].parent = i THEN i ELSE find_root(bins, bins[i].parent)

RECURSIVE on_path(_, _, _)
on_path(bins, i, b) ==
    \/ i = b
    \/ (bins[i].parent # i /\ on_path(bins, bins[i].parent, b))

(* the second loop of the sort key, run for every bin in S: each bin on the
   way to the root gets the root as its parent *)
compress_paths(bins, S) ==
    fun_of([b \in DOMAIN bins |->
        IF \E i \in S : on_path(bins, i, b)
        THEN [bins[b] EXCEPT !.parent = find_root(bins, b)]
        ELSE bins[b]])

(* a slice with the key the closure gives each triangle *)
keyed(ts, bins, box, bin_count) ==
    seq_of([i \in 1..Len(ts) |->
               [t |-> ts[i],
                k |-> bins[bin_index(centroid(ts[i]), box, bin_count)].parent]])
unkeyed(es) == seq_of([i \in 1..Len(es) |-> es[i].t])

(* sort_unstable_by_key: ascending keys; equal keys in input order, or
   reversed when rev *)
sort_by_key(es, rev) ==
    LET n == Len(es)
        before(i, j) ==
            \/ es[i].k < es[j].k
            \/ es[i].k = es[j].k /\ (IF rev THEN i > j ELSE i < j)
        rank == seq_of([j \in 1..n |-> Cardinality({i \in 1..n : before(i, j)}) + 1])
    IN seq_of([r \in 1..n |-> es[CHOOSE j \in 1..n : rank[j] = r]])

(* chunk_by and the fold: the (count, box) of every run of equal keys *)
chunk_by(es) ==
    LET n == Len(es)
        starts == {i \in 1..n : i = 1 \/ es[i].k # es[i - 1].k}
        start(c) == CHOOSE i \in starts : Cardinality({x \in starts : x < i}) = c - 1
        stop(c) == IF c = Cardinality(starts) THEN n ELSE start(c + 1) - 1
    IN seq_of([c \in 1..Cardinality(starts) |->
           [count |-> stop(c) - start(c) + 1,
            box   |-> from_points(UNION {vertices_of(es[i].t) :
                                           i \in start(c)..stop(c)})]])

(* faulty variant: the running offset is never advanced *)
RECURSIVE scan_ranges_stuck(_, _)
scan_ranges_stuck(chunks, state) ==
    IF chunks = <<>> THEN <<>>
    ELSE <<[off |-> state, len |-> Head(chunks).count, box |-> Head(chunks).box]>>
             \o scan_ranges_stuck(Tail(chunks), state)

(* the scan: chunk_offset .. chunk_offset + chunk_count for every chunk *)
RECURSIVE scan_ranges(_, _)
scan_ranges(chunks, state) ==
    IF chunks = <<>> THEN <<>>
    ELSE <<[off |-> state, len |-> Head(chunks).count, box |-> Head(chunks).box]>>
             \o scan_ranges(Tail(chunks), state + Head(chunks).count)

(* the key of the sort: the root of the triangle's bin *)
keyed_root(ts, bins, box, bin_count) ==
    seq_of([i \in 1..Len(ts) |->
               [t |-> ts[i],
                k |-> find_root(bins, bin_index(centroid(ts[i]), box, bin_count))]])

(* faulty variant: a full last pack is counted once more *)
packet_count_plus_one(len) == len \div LEAF_NODE_PACKET_SIZE + 1

(* build_leaf: triangles.len().div_ceil(LEAF_NODE_PACKET_SIZE) *)
packet_count_of(len) == div_ceil(len, LEAF_NODE_PACKET_SIZE)

(* faulty variant: no padding entries are appended *)
padding_none(padded_triangle_count, len) == 0

(* build_leaf: padded_triangle_count - triangles.len() *)
padding_of(padded_triangle_count, len) == padded_triangle_count - len

(* simd_windows over the compressed triangles of a leaf: one pack per eight
   triangles, the lanes past the end left at their default *)
simd_windows(ts, box) ==
    seq_of([j \in 1..div_ceil(Len(ts), LEAF_NODE_PACKET_SIZE) |->
        [i \in 0..(LEAF_NODE_PACKET_SIZE - 1) |->
            LET k == (j - 1) * LEAF_NODE_PACKET_SIZE + i + 1
            IN IF k <= Len(ts) THEN compress_triangle(ts[k], box) ELSE zero_lane]])

(* TriangleBvh::build up to the call of build_recursive (85-98) *)
BuildStart ==
    /\ bpc = "build"
    /\ builder' = [builder EXCEPT
          !.call = [off |-> 0, len |-> Len(triangles),
                    box |-> from_points(vertices_iter(triangles))],
          !.bpc = "call"]
    /\ UNCHANGED build_rest

(* build_recursive with at most LEAF_NODE_MAX_TRIANGLES triangles:
   build_leaf (171-208) *)
BuildLeaf ==
    /\ bpc = "call"
    /\ call.len <= LEAF_NODE_MAX_TRIANGLES
    /\ LET ts == slice(call.off, call.len)
           packet_count == packet_count_of(call.len)
           padded_triangle_count == packet_count * LEAF_NODE_PACKET_SIZE
           padding == padding_of(padded_triangle_count, call.len)
       IN IF call.len = 0 \/ packet_count < MIN_COUNT \/ packet_count > MAX_COUNT
          THEN builder' = [builder EXCEPT !.bpc = "panicked", !.call = NoCall]
          ELSE builder' = [builder EXCEPT
                  !.ret = new_leaf(Len(triangle_geometry), packet_count),
                  !.triangle_geometry =
                      triangle_geometry \o simd_windows(ts, call.box),
                  !.triangle_shading_data =
                      triangle_shading_data
                          \o [k \in 1..Len(ts) |-> shading_of(ts[k])]
                          \o [k \in 1..padding |-> default_shading],
                  !.bpc = "return",
                  !.call = NoCall]
    /\ UNCHANGED build_rest

(* build_recursive with more triangles: build_inner_node calls
   split_triangles, which fills the bins and collects the groups (244-266) *)
SplitBegin ==
    /\ bpc = "call"
    /\ call.len > LEAF_NODE_MAX_TRIANGLES
    /\ Len(frames) < MaxDepth
    /\ LET bc == bin_count_of(call.len)
           bins == filled_bins(slice(call.off, call.len), call.box, bc)
       IN builder' = [builder EXCEPT
             !.split = [bin_count |-> bc, bins |-> bins,
                        groups |-> nonempty_bins(bins),
                        last_merge |-> NoMerge],
             !.bpc = "merge"]
    /\ UNCHANGED build_rest

(* faulty variant: a loss ends the loop however many groups remain *)
merge_loop_ends_at_loss(groups) ==
    IF Len(groups) <= 2 THEN TRUE
    ELSE find_best_bin_merge(groups).sah_improvement < 0

(* faulty variant: the loop merges down to two groups whatever the cost *)
merge_loop_ends_at_two(groups) == Len(groups) <= 2

(* the merge loop stops: at most two groups, or the best merge is a loss
   and the groups fit a node (269-276) *)
merge_loop_ends(groups) ==
    IF Len(groups) <= 2 THEN TRUE
    ELSE /\ Len(groups) <= INNER_NODE_CHILDREN
         /\ find_best_bin_merge(groups).sah_improvement < 0

(* one iteration of the merge loop (278-283) *)
MergeStep ==
    /\ bpc = "merge"
    /\ ~merge_loop_ends(split.groups)
    /\ LET groups == split.groups
           m == find_best_bin_merge(groups)
           g1 == groups[m.i1]
           g2 == groups[m.i2]
           merged == [groups EXCEPT ![m.i1] = merge(g1, g2)]
           swapped == [merged EXCEPT ![m.i2] = merged[Len(merged)]]
       IN builder' = [builder EXCEPT
             !.split.bins = [@ EXCEPT ![g2.parent].parent = g1.parent],
             !.split.groups = SubSeq(swapped, 1, Len(swapped) - 1),
             !.split.last_merge = [groups |-> Len(groups),
                                   sah_improvement |-> m.sah_improvement]]
    /\ UNCHANGED build_rest

(* split_triangles after the merge loop (286-335) and build_inner_node up
   to its first child (129-150): sort, chunk, push the placeholder,
   compress the child boxes *)
SplitEnd ==
    /\ bpc = "merge"
    /\ merge_loop_ends(split.groups)
    /\ \E rev \in BOOLEAN :
        LET ts == slice(call.off, call.len)
            bc == split.bin_count
            es == keyed_root(ts, split.bins, call.box, bc)
            sorted == unkeyed(sort_by_key(es, rev))
            bins2 == compress_paths(split.bins,
                        {bin_index(centroid(ts[i]), call.box, bc) : i \in 1..Len(ts)})
            split_indices == scan_ranges(chunk_by(keyed(sorted, bins2, call.box, bc)), 0)
            reordered == SubSeq(triangles, 1, call.off) \o sorted
                             \o SubSeq(triangles, call.off + call.len + 1, Len(triangles))
        IN IF Len(split_indices) > INNER_NODE_CHILDREN
           THEN builder' = [builder EXCEPT
                   !.triangles = reordered,
                   !.bpc = "panicked",
                   !.call = NoCall,
                   !.split = NoSplit]
           ELSE builder' = [builder EXCEPT
                   !.triangles = reordered,
                   !.inner_nodes = Append(inner_nodes, placeholder_node),
                   !.frames = Append(frames,
                         [node_index    |-> Len(inner_nodes),
                          off           |-> call.off,
                          len           |-> call.len,
                          box           |-> call.box,
                          split_indices |-> split_indices,
                          roots         |->
                             [k \in 1..Len(split_indices) |->
                                 {find_root(split.bins,
                                            bin_index(centroid(sorted[i]), call.box, bc)) :
                                    i \in (split_indices[k].off + 1)..
                                          (split_indices[k].off + split_indices[k].len)}],
                          child_bounds  |->
                             [k \in 1..Len(split_indices) |->
                                 compress_round_out(split_indices[k].box, call.box)],
                          child_links   |-> <<>>]),
                   !.bpc = "children",
                   !.call = NoCall,
                   !.split = NoSplit]
    /\ UNCHANGED build_rest

(* array::from_fn, lane i with a range: build_recursive on the sub-slice and
   the decompressed child box (153-156) *)
NextChild ==
    /\ bpc = "children"
    /\ LET f == frames[Len(frames)]
           i == Len(f.child_links) + 1
       IN /\ i <= Len(f.split_indices)
          /\ builder' = [builder EXCEPT
                !.call = [off |-> f.off + f.split_indices[i].off,
                          len |-> f.split_indices[i].len,
                          box |-> decompress_box(f.child_bounds[i], f.box)],
                !.bpc = "call"]
    /\ UNCHANGED build_rest

(* the link a child's build_recursive returned becomes child_links[i] *)
ChildReturn ==
    /\ bpc = "return"
    /\ frames # <<>>
    /\ builder' = [builder EXCEPT
          !.frames = [frames EXCEPT ![Len(frames)].child_links = Append(@, ret)],
          !.ret = NoLink,
          !.bpc = "children"]
    /\ UNCHANGED build_rest

(* the remaining lanes are NULL; the placeholder is replaced and the link to
   the node returned (157-168) *)
FinishNode ==
    /\ bpc = "children"
    /\ LET f == frames[Len(frames)]
       IN /\ Len(f.child_links) = Len(f.split_indices)
          /\ builder' = [builder EXCEPT
                !.inner_nodes =
                    [inner_nodes EXCEPT ![f.node_index + 1] =
                        [placeholder  |-> FALSE,
                         child_bounds |-> [i \in Lanes |->
                             IF i < Len(f.child_bounds) THEN f.child_bounds[i + 1]
                             ELSE <<0, 0>>],
                         child_links  |-> [i \in Lanes |->
                             IF i < Len(f.child_links)
                             THEN link_word(f.child_links[i + 1])
                             ELSE link_word(NullLink)]]],
                !.ret = new_inner(f.node_index),
                !.frames = SubSeq(frames, 1, Len(frames) - 1),
                !.bpc = "return"]
    /\ UNCHANGED build_rest

(* TriangleBvh::build, bvh.root = the link of the outermost call (98-107) *)
BuildEnd ==
    /\ bpc = "return"
    /\ frames = <<>>
    /\ builder' = [builder EXCEPT !.root = ret, !.ret = NoLink, !.bpc = "done"]
    /\ UNCHANGED build_rest

(* every link of the tree with the place that holds it: the root (node -1)
   and the lanes of the inner nodes that are no placeholders *)
AllLinks ==
    (IF root = NoLink THEN {} ELSE {[node |-> -1, lane |-> 0, link |-> root]})
    \cup {[node |-> n, lane |-> i,
           link |-> extract(inner_nodes[n + 1].child_links, i)] :
            n \in {m \in 0..(Len(inner_nodes) - 1) : ~inner_nodes[m + 1].placeholder},
            i \in Lanes}

(* the links found by walking down from the root *)
RECURSIVE reach_from(_)
reach_from(S) ==
    LET T == S \cup {l \in AllLinks :
                       \E p \in S : p.link.kind = "Inner" /\ p.link.index = l.node}
    IN IF T = S THEN S ELSE reach_from(T)
ReachableLinks == reach_from({l \in AllLinks : l.node = -1})

(* Triangle::intersect on one lane: a lane whose three points coincide has
   e2 = 0, so det = 0, inv_det is infinite and u = inv_det * 0 is NaN, and
   the mask u >= 0 is off whatever the ray; another lane gets the t the ray
   has for it *)
triangle_intersect(lane, t) ==
    LET e2_is_zero == lane.p[3] = lane.p[1]
        u == IF e2_is_zero THEN "NaN" ELSE "number"
    IN IF u = "NaN" THEN NoHit ELSE t

(* a ray against one leaf, of at most MaxProbePacks packs, of the finished
   BVH, as intersect meets it: the
   ray is at t_real on the planes of the triangles of the input (NoHit: it
   misses them) and passes the minimum corner of the enclosing box, where
   the zero lanes lie, at t = 0 *)
ProbeLeaf ==
    /\ bpc = "done"
    /\ \E l \in {x \in ReachableLinks :
                    /\ x.link.kind = "Leaf"
                    /\ x.link.last - x.link.first <= MaxProbePacks} :
       \E t_real \in {NoHit, MaxT} :
          bvh' = [root |-> l.link,
                  inner_nodes |-> <<>>,
                  triangle_geometry |->
                     [j \in 1..Len(triangle_geometry) |->
                         [i \in 0..(LEAF_NODE_PACKET_SIZE - 1) |->
                             triangle_intersect(triangle_geometry[j][i],
                                 IF triangle_geometry[j][i].id = 0
                                 THEN 0 ELSE t_real)]]]
    /\ tpc' = "intersect"
    /\ builder' = [builder EXCEPT !.bpc = "probed"]
    /\ UNCHANGED <<rvars, lvars, fvars, svars, pvars, stack, best, result,
                   pruned>>

(* the triangle list handed to build *)
input_triangles(n, l) == [i \in 1..n |-> [id |-> i, c |-> Layout(l, i)]]

InitBuild ==
    /\ RenderIdle
    /\ TraversalIdle
    /\ LinkIdle
    /\ BoxIdle
    /\ SpiralIdle
    /\ PfeIdle
    /\ \E n \in 0..MaxTriangles : \E l \in Layouts :
           builder = [triangles |-> input_triangles(n, l),
                      inner_nodes |-> <<>>,
                      triangle_geometry |-> <<>>,
                      triangle_shading_data |-> <<>>,
                      root |-> NoLink,
                      call |-> NoCall,
                      frames |-> <<>>,
                      split |-> NoSplit,
                      ret |-> NoLink,
                      bpc |-> "build"]

NextBuild ==
    \/ BuildStart
    \/ BuildLeaf
    \/ SplitBegin
    \/ MergeStep
    \/ SplitEnd
    \/ NextChild
    \/ ChildReturn
    \/ FinishNode
    \/ BuildEnd
    \/ ProbeLeaf
    \/ IntersectRoot
    \/ IntersectReturn

SpecBuild == InitBuild /\ [][NextBuild]_vars

(* ------------------------ link encoding round trip ---------------------- *)

(* raw indices tried: the low end and both sides of MAX_INDEX *)
MaxLowIndex == 2
RawIndices == (0..MaxLowIndex) \cup ((MAX_INDEX - MAX_COUNT)..(MAX_INDEX + 1))
RawCounts == 0..(MAX_COUNT + 1)

(* the three kinds of NodeLink with the raw values they are made from *)
LinkRequests ==
    {[kind |-> "Null", index |-> 0, count |-> 0]}
        \cup {[kind |-> "Inner", index |-> i, count |-> 0] : i \in RawIndices}
        \cup {[kind |-> "Leaf", index |-> i, count |-> c] :
                  i \in RawIndices, c \in RawCounts}

(* the raw index becomes an InnerNodeIdx / TrianglePackIdx (from_raw, into),
   then NodeLink::Null, new_inner or new_leaf builds the link *)
LinkConstruct ==
    /\ lpc = "start"
    /\ LET made == IF link_req.kind = "Null" THEN NullLink
                   ELSE IF ~index_ok(link_req.index) THEN PanicLink
                   ELSE IF link_req.kind = "Inner"
                        THEN new_inner(link_req.index)
                        ELSE new_leaf(link_req.index, link_req.count)
       IN round_trip' = [round_trip EXCEPT
             !.link = made,
             !.pc = IF made = PanicLink THEN "panicked" ELSE "built"]
    /\ UNCHANGED link_rest

(* CompressedNodeLink8::default() followed by replace(i, link) *)
LinkReplace ==
    /\ lpc = "built"
    /\ round_trip' = [round_trip EXCEPT
          !.links = replace(default_links, link_lane, link_in),
          !.pc = "stored"]
    /\ UNCHANGED link_rest

(* extract(j) of every lane j *)
LinkExtract ==
    /\ lpc = "stored"
    /\ LET out == fun_of([j \in Lanes |-> extract(link8, j)])
       IN round_trip' = [round_trip EXCEPT
             !.decoded = out,
             !.pc = IF \E j \in Lanes : out[j] = PanicLink
                    THEN "panicked" ELSE "decoded"]
    /\ UNCHANGED link_rest

InitLink ==
    /\ RenderIdle
    /\ TraversalIdle
    /\ BuildIdle
    /\ BoxIdle
    /\ SpiralIdle
    /\ PfeIdle
    /\ round_trip \in
          {[req |-> r, link |-> NoLink, links |-> <<>>, lane |-> i,
            decoded |-> <<>>, pc |-> "start"] : r \in LinkRequests, i \in Lanes}

NextLink ==
    \/ LinkConstruct
    \/ LinkReplace
    \/ LinkExtract

SpecLink == InitLink /\ [][NextLink]_vars

(* ------------------------ box compression in f32 ------------------------ *)

(* f32 and u16 at a reduced width: MantBits bits of significand instead of
   24, QuantBits bits of quantisation instead of 16, coordinates in [0, 2]
   on a grid of 2^-CoordBits.  As in the code the significand is wider than
   the quantised word. *)
MantBits == 4
QuantBits == 3
CoordBits == 3

(* values are counted in units of 2^-FracBits, fine enough that no result
   of the round trip falls below the smallest normal number *)
FracBits == CoordBits + MantBits + QuantBits - 1
ONE == 2 ^ FracBits

(* the exponent of the unit in the last place of num/den *)
RECURSIVE ulp_exp(_, _, _)
ulp_exp(num, den, k) ==
    IF num >= den * (2 ^ (MantBits + k)) THEN ulp_exp(num, den, k + 1) ELSE k

(* round the quotient num/den >= 0 to the nearest float, ties to even *)
fl(num, den) ==
    IF num = 0 THEN 0
    ELSE LET d == den * (2 ^ ulp_exp(num, den, 0))
             q == num \div d
             r == num % d
             up == 2 * r > d \/ (2 * r = d /\ q % 2 = 1)
         IN (IF up THEN q + 1 ELSE q) * (d \div den)

(* the f32 operations of the round trip: -, /, *, the product with a whole
   number, and mul_add, which is one rounding where the build has FMA and
   two where it has not *)
f32_sub(x, y) == fl(x - y, 1)
f32_div(x, y) == fl(x * ONE, y)
f32_mul(x, y) == fl(x * y, ONE)
f32_times(x, n) == fl(x * n, 1)
mul_add(x, y, z, fused) ==
    IF fused THEN fl(x * y + z * ONE, ONE) ELSE fl(f32_mul(x, y) + z, 1)

(* the coordinates tried: the floats of the grid *)
Coords == {n * (2 ^ (FracBits - CoordBits)) : n \in 0..(2 ^ (CoordBits + 1))}
Floats == {x \in Coords : fl(x, 1) = x}

(* u16::MAX as f32, and f32::floor / f32::ceil *)
QMax == (2 ^ QuantBits) - 1
f32_floor(v) == (v \div ONE) * ONE
f32_ceil(v) == ((v + ONE - 1) \div ONE) * ONE

(* UnitInterval8::compress_internal of one lane: rounding(v * max), zero
   where the mask is off, clamped to [0, max], truncated to the word *)
unit_compress(v, ceil, m) ==
    LET scaled == f32_times(v, QMax)
        rounded == IF ceil THEN f32_ceil(scaled) ELSE f32_floor(scaled)
        blended == IF m THEN rounded ELSE 0
    IN clamp(blended, 0, QMax * ONE) \div ONE

(* UnitInterval8::decompress: the word times INV_U16_MAX *)
INV_U16_MAX == fl(ONE, QMax)
unit_decompress(word) == f32_times(INV_U16_MAX, word)

(* RelativePoint8::compress_internal: (p - min) / size, then the word *)
point_compress(p, e, ceil, m) ==
    unit_compress(f32_div(f32_sub(p, e.min), e.size), ceil, m)

(* RelativePoint8::decompress: size.mul_add(relative, min) *)
point_decompress(word, e, fused) ==
    mul_add(e.size, unit_decompress(word), e.min, fused)

(* RelativeBox8::compress_round_out: floor for min, ceil for max *)
box_compress(bx, e, m) ==
    [min |-> point_compress(bx.min, e, FALSE, m),
     max |-> point_compress(bx.max, e, TRUE, m)]

(* RelativeBox8::compress_round_out on the lane *)
CompressRoundOut ==
    /\ fpc = "start"
    /\ box_trip' = [box_trip EXCEPT
          !.relative = box_compress(lane_box, enclosing_box, box_mask),
          !.pc = "compressed"]
    /\ UNCHANGED box_rest

(* RelativeBox8::decompress on the lane *)
DecompressBox ==
    /\ fpc = "compressed"
    /\ \E fused \in BOOLEAN :
          box_trip' = [box_trip EXCEPT
             !.decompressed =
                 [min |-> point_decompress(relative_box.min, enclosing_box, fused),
                  max |-> point_decompress(relative_box.max, enclosing_box, fused)],
             !.pc = "decompressed"]
    /\ UNCHANGED box_rest

(* an enclosing box of positive size (WorldBoxSized: size = max - min) and
   a box inside it *)
InitBox ==
    /\ RenderIdle
    /\ TraversalIdle
    /\ BuildIdle
    /\ LinkIdle
    /\ SpiralIdle
    /\ PfeIdle
    /\ \E mn \in Floats, mx \in Floats, m \in BOOLEAN :
          /\ mn < mx
          /\ \E lo \in {x \in Floats : mn <= x /\ x <= mx} :
                \E hi \in {x \in Floats : lo <= x /\ x <= mx} :
                   box_trip = [enclosing_box |->
                                   [min |-> mn, max |-> mx,
                                    size |-> f32_sub(mx, mn)],
                               b |-> [min |-> lo, max |-> hi],
                               mask |-> m,
                               relative |-> NoBox,
                               decompressed |-> NoBox,
                               pc |-> "start"]

NextBox ==
    \/ CompressRoundOut
    \/ DecompressBox

SpecBox == InitBox /\ [][NextBox]_vars

(* ----------------------------- spiral chunks ---------------------------- *)

MaxOffset == 1
MaxSide == 6
MaxChunk == 3

(* Box2D::is_empty_or_negative, Box2D::contains_box, width and height *)
is_empty_or_negative(bx) == ~(bx.max.x > bx.min.x /\ bx.max.y > bx.min.y)
contains_box(outer, inner) ==
    \/ is_empty_or_negative(inner)
    \/ /\ outer.min.x <= inner.min.x /\ inner.max.x <= outer.max.x
       /\ outer.min.y <= inner.min.y /\ inner.max.y <= outer.max.y
block_size(bx) == [width |-> bx.max.x - bx.min.x, height |-> bx.max.y - bx.min.y]

(* Box2D::from(size).contains(p): inside [0, size) on both axes *)
size_contains(sz, p) ==
    /\ 0 <= p.x /\ p.x < sz.width
    /\ 0 <= p.y /\ p.y < sz.height

(* faulty variant: the division without the rounding up *)
divide_round_down(a, scale) ==
    [width |-> a.width \div scale, height |-> a.height \div scale]

(* divide_round_up: a / b, plus one where a is not a multiple of b *)
divide_round_up(a, scale) ==
    LET div == [width |-> a.width \div scale, height |-> a.height \div scale]
    IN [width |-> div.width + (IF a.width # div.width * scale THEN 1 ELSE 0),
        height |-> div.height + (IF a.height # div.height * scale THEN 1 ELSE 0)]

(* SpiralChunks::empty *)
empty_spiral ==
    [block |-> [min |-> [x |-> 0, y |-> 0], max |-> [x |-> 0, y |-> 0]],
     chunk_scale |-> 0,
     size |-> [width |-> 0, height |-> 0],
     cursor |-> [x |-> 0, y |-> 0],
     direction |-> [x |-> 1, y |-> 0],
     segment |-> 0, segment_remaining |-> 0, remaining |-> 0]

(* ScreenBlockExt::spiral_chunks for chunk_size > 0 *)
spiral_chunks(bx, chunk_size) ==
    IF is_empty_or_negative(bx) THEN empty_spiral
    ELSE LET size == divide_round_up(block_size(bx), chunk_size)
             cursor == [x |-> size.width \div 2, y |-> size.height \div 2]
             dx == 2 * cursor.y - size.height
         IN [block |-> bx,
             chunk_scale |-> chunk_size,
             size |-> size,
             cursor |-> cursor,
             direction |-> [x |-> dx, y |-> -1 - dx],
             segment |-> 2, segment_remaining |-> 1,
             remaining |-> size.width * size.height]

(* SpiralChunks::next_segment: turn and take the next segment length *)
next_segment(it) ==
    [it EXCEPT !.direction = [x |-> it.direction.y, y |-> -it.direction.x],
               !.segment = it.segment + 1,
               !.segment_remaining = (it.segment + 1) \div 2]

(* faulty variant: the chunk at the cursor, not clipped to the block *)
current_block_unclipped(it) ==
    LET min == [x |-> it.block.min.x + it.cursor.x * it.chunk_scale,
                y |-> it.block.min.y + it.cursor.y * it.chunk_scale]
    IN [min |-> min,
        max |-> [x |-> min.x + it.chunk_scale, y |-> min.y + it.chunk_scale]]

(* SpiralChunks::current_block: the chunk at the cursor clipped to the
   block; the cast of the cursor to usize fails on a negative coordinate *)
cursor_fits(it) == it.cursor.x >= 0 /\ it.cursor.y >= 0
current_block(it) ==
    LET min == [x |-> it.block.min.x + it.cursor.x * it.chunk_scale,
                y |-> it.block.min.y + it.cursor.y * it.chunk_scale]
        max == [x |-> min.x + it.chunk_scale, y |-> min.y + it.chunk_scale]
    IN [min |-> min,
        max |-> [x |-> IF it.block.max.x < max.x THEN it.block.max.x ELSE max.x,
                 y |-> IF it.block.max.y < max.y THEN it.block.max.y ELSE max.y]]

(* the iterator after a call of next() that returned a block *)
advance(it) ==
    LET turned == IF it.segment_remaining = 0 THEN next_segment(it) ELSE it
        new_cursor == [x |-> turned.cursor.x + turned.direction.x,
                       y |-> turned.cursor.y + turned.direction.y]
        stepped == [turned EXCEPT
                       !.segment_remaining = turned.segment_remaining - 1]
        moved ==
            IF size_contains(stepped.size, new_cursor)
            THEN [stepped EXCEPT !.cursor = new_cursor]
            ELSE LET skip == next_segment(stepped)
                     skipped == [skip EXCEPT !.cursor =
                         [x |-> skip.cursor.x
                                    + skip.direction.x * skip.segment_remaining,
                          y |-> skip.cursor.y
                                    + skip.direction.y * skip.segment_remaining]]
                 IN next_segment(skipped)
    IN [moved EXCEPT !.remaining = moved.remaining - 1]

(* block.spiral_chunks(chunk_size); a chunk size of zero fails the assert *)
SpiralChunksCall ==
    /\ spc = "start"
    /\ IF chunks_of.chunk_size > 0
       THEN spiral_loop' = [spiral_loop EXCEPT
               !.iterator = spiral_chunks(chunks_of.block, chunks_of.chunk_size),
               !.pc = "iterating"]
       ELSE spiral_loop' = [spiral_loop EXCEPT !.pc = "panicked"]
    /\ UNCHANGED spiral_rest

(* SpiralChunks::next returning Some(block) *)
SpiralNext ==
    /\ spc = "iterating"
    /\ spiral.remaining # 0
    /\ IF cursor_fits(spiral)
       THEN spiral_loop' = [spiral_loop EXCEPT
               !.yielded = Append(yielded, current_block(spiral)),
               !.iterator = advance(spiral)]
       ELSE spiral_loop' = [spiral_loop EXCEPT !.pc = "panicked"]
    /\ UNCHANGED spiral_rest

(* SpiralChunks::next returning None *)
SpiralEnd ==
    /\ spc = "iterating"
    /\ spiral.remaining = 0
    /\ spiral_loop' = [spiral_loop EXCEPT !.pc = "done"]
    /\ UNCHANGED spiral_rest

(* rect(x, y, w, h).to_box2d() and a chunk size *)
InitSpiral ==
    /\ RenderIdle
    /\ TraversalIdle
    /\ BuildIdle
    /\ LinkIdle
    /\ BoxIdle
    /\ PfeIdle
    /\ spiral_loop \in
          {[of |-> [block |-> [min |-> [x |-> x, y |-> y],
                               max |-> [x |-> x + w, y |-> y + h]],
                    chunk_size |-> c],
            iterator |-> NoSpiral,
            yielded |-> <<>>,
            pc |-> "start"] :
               x \in 0..MaxOffset, y \in 0..MaxOffset,
               w \in 0..MaxSide, h \in 0..MaxSide, c \in 0..MaxChunk}

NextSpiral ==
    \/ SpiralChunksCall
    \/ SpiralNext
    \/ SpiralEnd

SpecSpiral == InitSpiral /\ [][NextSpiral]_vars

(* --------------------------- parallel_for_each -------------------------- *)

MaxItems == 2
MaxThreads == 2
MaxFairItems == 1

Threads == 1..pfe_in.worker_count
Items == 1..pfe_in.items

(* the iterators the tests pass: a range (None for ever after its items),
   UglyIterator (one None after its items, then items again) and 0..
   (never None) *)
Shapes == {"range", "ugly", "endless"}

(* what stands for every item past the first pfe_in.items ones *)
FurtherItem == pfe_in.items + 1

(* a Result of a thread or of parallel_for_each; the source of an error is
   told by the call that returned it: the worker's id, 0 for background_fun *)
PfeOk == [kind |-> "Ok", source |-> 0]
PfeRunning == [kind |-> "Running", source |-> 0]
PfeNone == [kind |-> "None", source |-> 0]

(* It::next of the caller's iterator: [item, it], item 0 for None *)
iterator_next(it) ==
    IF it.pos < pfe_in.items
    THEN [item |-> it.pos + 1, it |-> [it EXCEPT !.pos = it.pos + 1]]
    ELSE IF pfe_in.shape = "endless"
         THEN [item |-> FurtherItem, it |-> it]
         ELSE IF pfe_in.shape = "ugly" /\ it.pos > pfe_in.items
              THEN [item |-> FurtherItem, it |-> it]
              ELSE [item |-> 0,
                    it |-> IF pfe_in.shape = "ugly"
                           THEN [it EXCEPT !.pos = it.pos + 1] ELSE it]

(* faulty variant: the iterator is kept *)
state_stop_kept(st) == st

(* State::stop: the iterator is dropped *)
state_stop(st) == [st EXCEPT !.iterator.live = FALSE]

(* faulty variant: the iterator hands its last item out again *)
state_next_again(st) ==
    IF ~st.iterator.live THEN [item |-> 0, polled |-> FALSE, state |-> st]
    ELSE LET nx == iterator_next(st.iterator)
             polled == [st EXCEPT !.iterator = nx.it]
         IN IF nx.item # 0
            THEN [item |-> nx.item, polled |-> TRUE, state |-> polled]
            ELSE IF st.iterator.pos > 0
                 THEN [item |-> st.iterator.pos, polled |-> TRUE,
                       state |-> state_stop(polled)]
                 ELSE [item |-> 0, polled |-> TRUE,
                       state |-> state_stop(polled)]

(* State::next: nothing once the iterator is dropped; else the iterator's
   next item, and the iterator is dropped when it has none *)
state_next(st) ==
    IF ~st.iterator.live THEN [item |-> 0, polled |-> FALSE, state |-> st]
    ELSE LET nx == iterator_next(st.iterator)
             polled == [st EXCEPT !.iterator = nx.it]
         IN IF nx.item # 0
            THEN [item |-> nx.item, polled |-> TRUE, state |-> polled]
            ELSE [item |-> 0, polled |-> TRUE, state |-> state_stop(polled)]

(* faulty variant: the guard leaves the iterator to the other threads *)
guard_state_running(st) == [st EXCEPT !.threads_running = st.threads_running - 1]

(* faulty variant: the guard does not count the thread out *)
guard_state_uncounted(st) == state_stop(st)

(* the scope guard of a worker thread, under the lock: stop, one thread
   less, and the thread that finds none left runs finished_callback *)
guard_state(st) ==
    [state_stop(st) EXCEPT !.threads_running = st.threads_running - 1]

(* where a thread goes from its scope guard: st is the state the guard
   leaves *)
guard_pc(st) ==
    IF st.threads_running = 0 THEN "finished_callback" ELSE "exited"

(* thread::scope: spawn of worker w by the calling thread *)
PfeSpawn(w) ==
    /\ pfe_main = "spawning"
    /\ pfe_pc[w] = "unspawned"
    /\ \A v \in Threads : v < w => pfe_pc[v] # "unspawned"
    /\ pfe' = [pfe EXCEPT
          !.pc[w] = "spawned",
          !.main = IF w = pfe_in.worker_count THEN "background"
                   ELSE "spawning"]
    /\ UNCHANGED pfe_rest

(* the worker takes the lock, arms the guard and calls init_fun unlocked *)
PfeInitCall(w) ==
    /\ pfe_pc[w] = "spawned"
    /\ pfe' = [pfe EXCEPT
          !.pc[w] = "init_fun",
          !.hist.inits_running = @ + 1,
          !.hist.late_start = @ \/ pfe_hist.callbacks > 0]
    /\ UNCHANGED pfe_rest

(* init_fun returns Ok(state) or Err(e) *)
PfeInitReturn(w) ==
    /\ pfe_pc[w] = "init_fun"
    /\ \E ok \in BOOLEAN :
          LET err == [kind |-> "InitTaskError", source |-> w]
          IN pfe' = [pfe EXCEPT
                !.pc[w] = "relock",
                !.ret[w] = IF ok THEN PfeRunning ELSE err,
                !.hist.inits_running = @ - 1,
                !.hist.failed = @ \/ ~ok,
                !.hist.errors = IF ok THEN @ ELSE Cap2(@ + 1),
                !.hist.raised = IF ok \/ pfe_hist.failed THEN @ ELSE err]
    /\ UNCHANGED pfe_rest

(* the lock is taken again after init_fun or worker_fun: on Err the thread
   returns through the guard, else state.next() gives the item for
   worker_fun, or None and the thread returns Ok through the guard *)
PfeRelock(w) ==
    /\ pfe_pc[w] = "relock"
    /\ IF pfe_ret[w] # PfeRunning
       THEN pfe' = [pfe EXCEPT
               !.state = guard_state(pfe_state),
               !.pc[w] = guard_pc(guard_state(pfe_state)),
               !.hist.stopped = TRUE]
       ELSE LET nx == state_next(pfe_state)
                seen == [pfe_hist EXCEPT
                           !.polled_after_none =
                               @ \/ (nx.polled /\ pfe_hist.none_seen),
                           !.none_seen = @ \/ (nx.polled /\ nx.item = 0)]
            IN IF nx.item # 0
               THEN pfe' = [pfe EXCEPT
                       !.state = nx.state,
                       !.item[w] = nx.item,
                       !.pc[w] = "worker_fun",
                       !.hist = [seen EXCEPT
                           !.invoked[nx.item] = Cap2(@ + 1),
                           !.late_start = @ \/ pfe_hist.callbacks > 0,
                           !.late_item = @ \/ pfe_hist.stopped]]
               ELSE pfe' = [pfe EXCEPT
                       !.state = guard_state(nx.state),
                       !.ret[w] = PfeOk,
                       !.pc[w] = guard_pc(guard_state(nx.state)),
                       !.hist = [seen EXCEPT !.stopped = TRUE]]
    /\ UNCHANGED pfe_rest

(* worker_fun returns Ok(()) or Err(e) *)
PfeWorkerReturn(w) ==
    /\ pfe_pc[w] = "worker_fun"
    /\ \E ok \in BOOLEAN :
          LET err == [kind |-> "WorkerTaskError", source |-> w]
          IN pfe' = [pfe EXCEPT
                !.pc[w] = "relock",
                !.ret[w] = IF ok THEN PfeRunning ELSE err,
                !.hist.completed[pfe_item[w]] = Cap2(@ + 1),
                !.hist.failed = @ \/ ~ok,
                !.hist.errors = IF ok THEN @ ELSE Cap2(@ + 1),
                !.hist.raised = IF ok \/ pfe_hist.failed THEN @ ELSE err,
                !.item[w] = 0]
    /\ UNCHANGED pfe_rest

(* the last thread's guard unlocks the state and calls finished_callback *)
PfeFinishedCallback(w) ==
    /\ pfe_pc[w] = "finished_callback"
    /\ pfe' = [pfe EXCEPT
          !.pc[w] = "callback_running",
          !.hist.callbacks = Cap2(@ + 1),
          !.hist.running_at_callback =
              @ \/ \E v \in Threads : pfe_pc[v] \in {"init_fun", "worker_fun"}]
    /\ UNCHANGED pfe_rest

(* finished_callback returns, the guard drops the lock, the thread ends *)
PfeCallbackReturn(w) ==
    /\ pfe_pc[w] = "callback_running"
    /\ pfe' = [pfe EXCEPT
          !.pc[w] = "exited",
          !.hist.callbacks_done = Cap2(@ + 1)]
    /\ UNCHANGED pfe_rest

(* faulty variant: Stop is taken for Continue *)
PfeBackgroundIgnoresStop ==
    /\ pfe_main = "background"
    /\ \E r \in {"Continue", "Stop", "Err"} :
          LET err == [kind |-> "BackgroundTaskError", source |-> 0]
          IN pfe' = [pfe EXCEPT
             !.state = IF r = "Err" THEN state_stop(pfe_state)
                       ELSE pfe_state,
             !.hist.background = r,
             !.hist.stopped = @ \/ r # "Continue",
             !.hist.failed = @ \/ r = "Err",
             !.hist.errors = IF r = "Err" THEN Cap2(@ + 1) ELSE @,
             !.hist.raised = IF r = "Err" /\ ~pfe_hist.failed THEN err ELSE @,
             !.main = IF r = "Err" THEN "scope_end" ELSE "joining",
             !.result = IF r = "Err" THEN err ELSE @]
    /\ UNCHANGED pfe_rest

(* background_fun returns Continue, Stop or Err(e); anything but Continue
   stops the iterator, and Err leaves the scope closure at once *)
PfeBackground ==
    /\ pfe_main = "background"
    /\ \E r \in {"Continue", "Stop", "Err"} :
          LET err == [kind |-> "BackgroundTaskError", source |-> 0]
          IN pfe' = [pfe EXCEPT
             !.state = IF r = "Continue" THEN pfe_state
                       ELSE state_stop(pfe_state),
             !.hist.background = r,
             !.hist.stopped = @ \/ r # "Continue",
             !.hist.failed = @ \/ r = "Err",
             !.hist.errors = IF r = "Err" THEN Cap2(@ + 1) ELSE @,
             !.hist.raised = IF r = "Err" /\ ~pfe_hist.failed THEN err ELSE @,
             !.main = IF r = "Err" THEN "scope_end" ELSE "joining",
             !.result = IF r = "Err" THEN err ELSE @]
    /\ UNCHANGED pfe_rest

(* handle.join().unwrap()? over the handles in order: the first Err leaves
   the closure, the end of the handles gives Ok(()) *)
PfeJoin(w) ==
    /\ pfe_main = "joining"
    /\ pfe_pc[w] = "exited"
    /\ \A v \in Threads : v < w => pfe_pc[v] = "joined"
    /\ pfe' = [pfe EXCEPT
          !.pc[w] = "joined",
          !.main = IF pfe_ret[w] # PfeOk \/ w = pfe_in.worker_count
                   THEN "scope_end" ELSE @,
          !.result = IF pfe_ret[w] # PfeOk THEN pfe_ret[w]
                     ELSE IF w = pfe_in.worker_count THEN PfeOk ELSE @]
    /\ UNCHANGED pfe_rest

(* the scope waits for every thread it spawned, then parallel_for_each
   returns the closure's result *)
PfeReturn ==
    /\ pfe_main = "scope_end"
    /\ \A w \in Threads : pfe_pc[w] \in {"exited", "joined"}
    /\ pfe' = [pfe EXCEPT !.main = "returned"]
    /\ UNCHANGED pfe_rest

(* the state parallel_for_each starts in: the mutex holds the iterator and
   threads_running = worker_count, no thread is spawned *)
pfe_call(n, c, sh) ==
    [args |-> [items |-> n, worker_count |-> c, shape |-> sh],
     state |-> [iterator |-> [live |-> TRUE, pos |-> 0],
                threads_running |-> c],
     pc |-> [w \in 1..c |-> "unspawned"],
     item |-> [w \in 1..c |-> 0],
     ret |-> [w \in 1..c |-> PfeRunning],
     main |-> "spawning",
     result |-> PfeNone,
     hist |-> [failed |-> FALSE,
               errors |-> 0,
               raised |-> PfeNone,
               invoked |-> [i \in 1..(n + 1) |-> 0],
               completed |-> [i \in 1..(n + 1) |-> 0],
               inits_running |-> 0,
               callbacks |-> 0,
               callbacks_done |-> 0,
               running_at_callback |-> FALSE,
               late_start |-> FALSE,
               stopped |-> FALSE,
               late_item |-> FALSE,
               none_seen |-> FALSE,
               polled_after_none |-> FALSE,
               background |-> "None"]]

PfeOthersIdle ==
    /\ RenderIdle
    /\ TraversalIdle
    /\ BuildIdle
    /\ LinkIdle
    /\ BoxIdle
    /\ SpiralIdle

(* parallel_for_each(iterator, .., WorkerCount::Manual(worker_count)) *)
InitPfe ==
    /\ PfeOthersIdle
    /\ \E n \in 0..MaxItems, c \in 1..MaxThreads, sh \in Shapes :
          pfe = pfe_call(n, c, sh)

(* the same call with the shorter iterators of the termination checks *)
InitFairPfe ==
    /\ PfeOthersIdle
    /\ \E n \in 0..MaxFairItems, c \in 1..MaxThreads, sh \in Shapes :
          pfe = pfe_call(n, c, sh)

(* the steps of worker thread w and of the calling thread *)
PfeThread(w) ==
    /\ w \in Threads
    /\ \/ PfeInitCall(w)
       \/ PfeInitReturn(w)
       \/ PfeRelock(w)
       \/ PfeWorkerReturn(w)
       \/ PfeFinishedCallback(w)
       \/ PfeCallbackReturn(w)

PfeMain ==
    \/ \E w \in Threads : PfeSpawn(w)
    \/ PfeBackground
    \/ \E w \in Threads : PfeJoin(w)
    \/ PfeReturn

NextPfe ==
    \/ \E w \in Threads : PfeSpawn(w)
    \/ \E w \in Threads : PfeInitCall(w)
    \/ \E w \in Threads : PfeInitReturn(w)
    \/ \E w \in Threads : PfeRelock(w)
    \/ \E w \in Threads : PfeWorkerReturn(w)
    \/ \E w \in Threads : PfeFinishedCallback(w)
    \/ \E w \in Threads : PfeCallbackReturn(w)
    \/ PfeBackground
    \/ \E w \in Threads : PfeJoin(w)
    \/ PfeReturn

SpecPfe == InitPfe /\ [][NextPfe]_vars

(* every spawned OS thread keeps running and every function the caller
   passed returns; the calling thread runs, and join() and the scope wake up
   when the threads they wait for have ended *)
FairSpecPfe ==
    /\ InitFairPfe
    /\ [][NextPfe]_vars
    /\ \A w \in 1..MaxThreads : WF_pvars(PfeThread(w))
    /\ WF_pvars(PfeMain)

(* ------------------------------- claims -------------------------------- *)

(* C1: under every interleaving each tile index is returned by
   get_next_tile to at most one worker; in a render that was never aborted
   and has ended with a worker leaving its loop, every tile index was
   returned exactly once. *)
C1_ExactlyOneDispatch ==
    /\ \A t \in Tiles : hist.dispatched[t] <= 1
    /\ (~hist.aborted /\ is_finished /\ Panicked # Workers)
           => \A t \in Tiles : hist.dispatched[t] = 1

C1_Witness ==
    /\ ~hist.aborted /\ is_finished /\ Panicked = {}
    /\ worker_count >= 2 /\ tile_count >= 2
    /\ \A t \in Tiles : hist.dispatched[t] = 1 /\ image[t] = 1

(* C2: without abort(), once wait() has returned, progress().finished is
   total and next_tile_index is total + worker_count. *)
C2_FinishedIsTotalAfterWait ==
    (mainpc = "waited" /\ ~hist.aborted)
        => /\ progress.finished = tile_count
           /\ next_tile_index = tile_count + worker_count

C2_Witness ==
    /\ mainpc = "waited" /\ ~hist.aborted
    /\ tile_count >= 1 /\ worker_count >= 2
    /\ progress.finished = tile_count

(* C3 as stated: after abort() has returned no worker invokes tile_started
   any more. *)
C3_NoStartAfterAbort ==
    ~hist.late_started

(* C3 amended: after abort() has returned no tile is handed out any more;
   tile_started, the rendering and the copy still run for a tile that a
   worker had fetched before the abort. *)
C3_NoDispatchAfterAbort ==
    /\ ~hist.late_dispatch
    /\ \A w \in Workers :
          pc[w] \in {"tile_started", "render_tile", "lock_image", "copy_from"}
              => (tile[w] \in Tiles /\ hist.dispatched[tile[w]] = 1)

C3_Witness ==
    /\ hist.aborted /\ hist.late_started /\ hist.late_copied
    /\ \E t \in Tiles : hist.dispatched[t] = 0

(* C4: after abort() every get_next_tile finds the index at or past total
   and returns no tile, and a worker that got no tile leaves its loop, so
   a worker completes at most the tile it held; with fair scheduling all
   workers end and a wait() in progress returns. *)
C4_AbortTerminates ==
    /\ [](hist.aborted => next_tile_index >= tile_count)
    /\ [][hist.aborted =>
            \A w \in Workers :
               /\ (pc[w] = "spawned" /\ pc'[w] # "spawned")
                      => pc'[w] = "returned"
               /\ (pc[w] = "get_next_tile" /\ pc'[w] # "get_next_tile")
                      => new_tile'[w] = NoTile
               /\ (pc[w] = "tile_finished" /\ pc'[w] # "tile_finished"
                        /\ new_tile[w] = NoTile)
                      => pc'[w] = "elapsed"]_vars
    /\ (hist.aborted ~> (is_finished /\ mainpc # "waiting"))

C4_Witness ==
    /\ hist.aborted /\ mainpc = "waited" /\ is_finished
    /\ hist.late_copied
    /\ \E t \in Tiles : hist.dispatched[t] = 0

(* C5: in every reachable state progress().finished <= progress().total. *)
C5_FinishedAtMostTotal ==
    progress.finished <= progress.total

C5_Witness ==
    /\ hist.aborted /\ tile_count >= 1
    /\ next_tile_index = tile_count + worker_count
    /\ progress.finished = progress.total

(* C6: abort() called before all tiles were completed, then wait(): all
   workers are joined and progress().finished < total. *)
C6_AbortedFinishedBelowTotal ==
    (hist.early_abort /\ mainpc = "waited")
        => /\ joined = worker_count
           /\ is_finished
           /\ progress.finished < tile_count

(* C7: every worker that exits increments threads_done and the last one
   records finish_duration, so elapsed() is constant once is_finished(). *)
C7_LatchAndElapsedFrozen ==
    [][(is_finished /\ Panicked = {})
          => /\ end.threads_done = worker_count
             /\ end.finish_duration # NoDuration
             /\ elapsed' = elapsed]_vars

(* C8: a panicked worker makes wait() propagate the panic, and the end latch
   counts the panicked worker as well. *)
C8_PanicObservableAndLatched ==
    /\ (Panicked # {} => mainpc # "waited")
    /\ is_finished =>
          end.threads_done >=
              Cardinality({w \in Workers : pc[w] \in {"done", "panicked"}})

(* C9: no worker holds the image mutex and the end mutex together, and no
   worker holds either while it renders or runs a callback. *)
C9_LocksNotNested ==
    \A w \in Workers :
        /\ ~(image_lock = w /\ end_lock = w)
        /\ pc[w] \in {"tile_started", "render_tile", "tile_finished"}
               => (image_lock # w /\ end_lock # w)

C9_Witness ==
    \E w, v \in Workers :
        /\ w # v
        /\ image_lock = w
        /\ pc[v] = "tile_finished"
        /\ image[tile[v]] = 1

(* C10: for a BVH whose child boxes contain the triangles below them,
   intersect returns None exactly when the ray hits no stored triangle at
   t >= 0, and otherwise a hit of a stored triangle whose t is the minimum
   over all of them: the result of a brute-force scan. *)
C10_NearestHit ==
    tpc = "done" =>
        IF AllHitTs = {}
        THEN result.kind = "None"
        ELSE /\ result.kind = "Some"
             /\ result.t = MinOf(AllHitTs)
             /\ \E j \in 1..Len(bvh.triangle_geometry) :
                \E i \in 0..(LEAF_NODE_PACKET_SIZE - 1) :
                    /\ result.triangle_index = to_triangle_idx(j - 1, i)
                    /\ bvh.triangle_geometry[j][i] = result.t

C10_Witness ==
    /\ tpc = "done"
    /\ pruned = 1
    /\ bvh.root.kind = "Inner"
    /\ result.kind = "Some"
    /\ result.t = 1
    /\ result.triangle_index = to_triangle_idx(2, 0)
    /\ bvh.triangle_geometry[1][0] = 2
    /\ bvh.triangle_geometry[2][0] = 2

BuildFinished == bpc \in {"done", "probed"}
ReachableLeaves == {l \in ReachableLinks : l.link.kind = "Leaf"}

(* the places of the finished BVH that hold the input triangle `id`: a leaf
   link reachable from the root, a pack of its range, a lane of the pack *)
Occurrences(id) ==
    {x \in ReachableLeaves \X (0..(Len(triangle_geometry) - 1)) \X Lanes :
        /\ x[1].link.first <= x[2] /\ x[2] < x[1].link.last
        /\ triangle_geometry[x[2] + 1][x[3]].id = id}

(* C11: after build every triangle of the input is in exactly one masked-in
   lane of exactly one pack of exactly one leaf link reachable from the
   root, and the reordered slice still holds every triangle once. *)
C11_EveryTriangleOnce ==
    BuildFinished =>
        /\ {triangles[i].id : i \in 1..Len(triangles)} = 1..Len(triangles)
        /\ \A id \in 1..Len(triangles) : Cardinality(Occurrences(id)) = 1

C11_Witness ==
    /\ bpc = "done"
    /\ Len(triangles) = MaxTriangles
    /\ Len(inner_nodes) = 2
    /\ triangles[1].id # 1
    /\ Cardinality(ReachableLeaves) = 3

(* C12: after build every non-null link resolves: an Inner link to an
   initialised node of inner_nodes, a Leaf link to 1..7 packs that lie
   inside triangle_geometry; no node and no pack is referenced twice. *)
C12_LinksValid ==
    BuildFinished =>
        /\ root # NoLink
        /\ \A n \in 1..Len(inner_nodes) : ~inner_nodes[n].placeholder
        /\ \A l \in AllLinks :
              /\ l.link.kind = "Inner" =>
                    /\ l.link.index < Len(inner_nodes)
                    /\ ~inner_nodes[l.link.index + 1].placeholder
              /\ l.link.kind = "Leaf" =>
                    /\ l.link.last - l.link.first >= MIN_COUNT
                    /\ l.link.last - l.link.first <= MAX_COUNT
                    /\ l.link.last <= Len(triangle_geometry)
        /\ \A l1, l2 \in AllLinks :
              (l1 # l2 /\ l1.link.kind = l2.link.kind) =>
                 /\ l1.link.kind = "Inner" => l1.link.index # l2.link.index
                 /\ l1.link.kind = "Leaf" =>
                       (l1.link.last <= l2.link.first \/ l2.link.last <= l1.link.first)

C12_Witness ==
    /\ bpc = "done"
    /\ Len(inner_nodes) = 2
    /\ \E l \in AllLinks : l.node = 0 /\ l.link.kind = "Inner" /\ l.link.index = 1
    /\ \E l \in AllLinks : l.link.kind = "Null"
    /\ \E l \in AllLinks : l.link.kind = "Leaf" /\ l.link.last - l.link.first = 4

(* C13: triangle_shading_data always has 8 entries per pack; build_leaf of
   n triangles at pack p puts its k-th triangle at shading index p*8 + k
   and in lane k mod 8 of pack p + k div 8, and fills up with default
   entries whose lanes are zero; a hit never names such an entry. *)
C13_PaddedLeaves ==
    /\ [](Len(triangle_shading_data) = LEAF_NODE_PACKET_SIZE * Len(triangle_geometry))
    /\ [][(bpc = "call" /\ bpc' = "return") =>
            LET p == Len(triangle_geometry)
                n == call.len
                ts == slice(call.off, call.len)
                lane(k) == triangle_geometry'[p + k \div LEAF_NODE_PACKET_SIZE + 1]
                                             [k % LEAF_NODE_PACKET_SIZE]
                entry(k) == triangle_shading_data'[p * LEAF_NODE_PACKET_SIZE + k + 1]
                padded == div_ceil(n, LEAF_NODE_PACKET_SIZE) * LEAF_NODE_PACKET_SIZE
            IN /\ Len(triangle_geometry') = p + div_ceil(n, LEAF_NODE_PACKET_SIZE)
               /\ \A k \in 0..(n - 1) :
                     /\ entry(k) = shading_of(ts[k + 1])
                     /\ lane(k) = compress_triangle(ts[k + 1], call.box)
               /\ \A k \in n..(padded - 1) :
                     /\ entry(k) = default_shading
                     /\ is_zero(lane(k))]_vars
    /\ []((bpc = "probed" /\ tpc = "done" /\ result.kind = "Some") =>
             ~triangle_shading_data[result.triangle_index + 1].is_default)

C13_Witness ==
    /\ bpc = "probed"
    /\ tpc = "done"
    /\ Len(triangles) = 9
    /\ result.kind = "Some"
    /\ result.triangle_index = 0
    /\ triangle_shading_data[10].is_default
    /\ is_zero(triangle_geometry[2][1])
    /\ bvh.triangle_geometry[2][1] = NoHit

(* C14: build of an empty triangle list does not panic, and intersect on
   the BVH it returns is None for every ray. *)
C14_EmptyBuildSucceeds ==
    Len(triangles) = 0 =>
        /\ bpc # "panicked"
        /\ (bpc = "probed" /\ tpc = "done") => result.kind = "None"

(* C15: every build_recursive call that build_inner_node makes gets
   strictly fewer triangles than the build_inner_node that makes it. *)
C15_RecursionShrinks ==
    (bpc = "call" /\ frames # <<>>) => call.len < frames[Len(frames)].len

(* ---- link encoding ---- *)

(* the request is one the contract allows: Null, an Inner index or a Leaf
   index in [0, MAX_INDEX], a Leaf count in [MIN_COUNT, MAX_COUNT] *)
ValidRequest ==
    \/ link_req.kind = "Null"
    \/ link_req.kind = "Inner" /\ link_req.index \in 0..MAX_INDEX
    \/ /\ link_req.kind = "Leaf"
       /\ link_req.index \in 0..MAX_INDEX
       /\ link_req.count \in MIN_COUNT..MAX_COUNT

(* the link the request stands for *)
ExpectedLink ==
    CASE link_req.kind = "Null" -> NullLink
      [] link_req.kind = "Inner" -> [kind |-> "Inner", index |-> link_req.index]
      [] link_req.kind = "Leaf" ->
            [kind |-> "Leaf", first |-> link_req.index,
             last |-> link_req.index + link_req.count]

(* C16 as stated: every valid request is constructed, stored in lane i and
   read back as the same link, every other lane of the default pack reading
   Null.  The code panics on a Leaf whose index + count exceeds MAX_INDEX. *)
C16_RoundTripAll ==
    ValidRequest =>
        /\ lpc # "panicked"
        /\ lpc = "decoded" =>
               \A j \in Lanes :
                   link_out[j] = IF j = link_lane THEN ExpectedLink ELSE NullLink

(* C17: the NULL word decodes to Null; no valid Inner or Leaf link is stored
   as the NULL word; a leaf count of 0 or above MAX_COUNT, and an inner or
   leaf index above MAX_INDEX, panic and produce no link. *)
C17_NullAndPanics ==
    /\ extract(default_links, link_lane) = NullLink
    /\ (lpc \in {"stored", "decoded"} /\ link_in.kind \in {"Inner", "Leaf"})
           => link8[link_lane] # NULL_VALUE
    /\ (/\ lpc # "start"
        /\ \/ link_req.kind = "Leaf"
                  /\ (link_req.count = 0 \/ link_req.count > MAX_COUNT)
           \/ link_req.kind \in {"Inner", "Leaf"}
                  /\ link_req.index > MAX_INDEX)
           => (lpc = "panicked" /\ link_in = PanicLink)

C17_Witness ==
    /\ lpc = "panicked"
    /\ link_req.kind = "Inner"
    /\ link_req.index = MAX_INDEX + 1

(* ---- box compression ---- *)

(* C18 as stated: the decompressed lane contains the lane that was
   compressed, and a masked-out lane is stored as relative zero.  In f32
   the product with u16::MAX can round to a whole number, floor and ceil
   then leave it alone, and the decompressed bound lands one step inside. *)
C18_Conservative ==
    /\ (fpc = "decompressed" /\ box_mask)
           => (decompressed.min <= lane_box.min /\ decompressed.max >= lane_box.max)
    /\ (fpc \in {"compressed", "decompressed"} /\ ~box_mask)
           => (relative_box.min = 0 /\ relative_box.max = 0)

(* ---- spiral chunks ---- *)

(* the pixels of a block (ScreenBlockExt::internal_points) *)
internal_points(bx) ==
    IF is_empty_or_negative(bx) THEN {}
    ELSE {[x |-> px, y |-> py] :
              px \in bx.min.x..(bx.max.x - 1), py \in bx.min.y..(bx.max.y - 1)}

(* C19: for a chunk size of at least one the yielded chunks are pairwise
   disjoint and inside the block, and when the iterator ends every pixel of
   the block lies in exactly one of them; an empty block yields no chunk. *)
C19_SpiralCovers ==
    chunks_of.chunk_size >= 1 =>
        /\ spc # "panicked"
        /\ \A i \in 1..Len(yielded) :
              /\ ~is_empty_or_negative(yielded[i])
              /\ contains_box(chunks_of.block, yielded[i])
              /\ \A j \in 1..Len(yielded) :
                    i # j => internal_points(yielded[i])
                                 \cap internal_points(yielded[j]) = {}
        /\ spc = "done" =>
              \A p \in internal_points(chunks_of.block) :
                  Cardinality({i \in 1..Len(yielded) :
                                  p \in internal_points(yielded[i])}) = 1
        /\ is_empty_or_negative(chunks_of.block) => yielded = <<>>

C19_Witness ==
    /\ spc = "done"
    /\ chunks_of.chunk_size = 2
    /\ chunks_of.block.min = [x |-> 1, y |-> 1]
    /\ block_size(chunks_of.block) = [width |-> 5, height |-> 4]
    /\ Len(yielded) = 6

(* ---- parallel_for_each ---- *)

(* C20: with no function returning an error and background_fun returning
   Continue, no item is handed to worker_fun twice, and when
   parallel_for_each has returned Ok(()) worker_fun was invoked exactly once
   for every item and every invocation has completed. *)
C20_EachItemOnce ==
    (~pfe_hist.failed /\ pfe_main # "idle"
        /\ pfe_hist.background \in {"None", "Continue"}) =>
        /\ \A i \in Items : pfe_hist.invoked[i] <= 1
        /\ (pfe_main = "returned" /\ pfe_result = PfeOk) =>
               \A i \in Items :
                   pfe_hist.invoked[i] = 1 /\ pfe_hist.completed[i] = 1

C20_Witness ==
    /\ pfe_main = "returned"
    /\ pfe_result = PfeOk
    /\ ~pfe_hist.failed
    /\ pfe_hist.background = "Continue"
    /\ pfe_in.items = MaxItems
    /\ pfe_in.worker_count = MaxThreads
    /\ \A i \in Items : pfe_hist.completed[i] = 1

(* C21: in a run of parallel_for_each without panics, whatever init_fun,
   worker_fun and background_fun return, finished_callback is called at most
   once, no init_fun or worker_fun call is running when it begins and none
   starts afterwards, and when parallel_for_each has returned
   finished_callback was called exactly once and has returned. *)
C21_FinishedCallbackOnce ==
    pfe_main # "idle" =>
        /\ pfe_hist.callbacks <= 1
        /\ ~pfe_hist.running_at_callback
        /\ ~pfe_hist.late_start
        /\ pfe_hist.callbacks >= 1 =>
               \A w \in Threads : pfe_pc[w] \notin {"init_fun", "worker_fun"}
        /\ pfe_main = "returned" =>
               pfe_hist.callbacks = 1 /\ pfe_hist.callbacks_done = 1

C21_Witness ==
    /\ pfe_main = "returned"
    /\ pfe_in.worker_count = MaxThreads
    /\ pfe_in.shape = "endless"
    /\ pfe_result.kind = "BackgroundTaskError"
    /\ pfe_hist.callbacks_done = 1
    /\ \E w \in Threads : pfe_ret[w].kind = "WorkerTaskError"
    /\ \E w \in Threads : pfe_ret[w].kind = "InitTaskError"

(* C22: once a stop was registered no further item is handed out; a call in
   which exactly one of init_fun, worker_fun and background_fun returned
   Err(e), once, returns the matching error variant with that e as source;
   and after any Err the call returns, on an endless iterator too. *)
C22_ErrorStopsAndReturns ==
    /\ [](pfe_main # "idle" => ~pfe_hist.late_item)
    /\ []((pfe_main = "returned" /\ pfe_hist.errors = 1) =>
             pfe_result = pfe_hist.raised)
    /\ ((pfe_main # "idle" /\ pfe_hist.failed) ~> pfe_main = "returned")

C22_Witness ==
    /\ pfe_main = "returned"
    /\ pfe_in.shape = "endless"
    /\ pfe_in.worker_count = MaxThreads
    /\ pfe_hist.errors = 1
    /\ pfe_hist.background = "Continue"
    /\ pfe_result = [kind |-> "WorkerTaskError", source |-> MaxThreads]
    /\ pfe_ret[1] = PfeOk
    /\ pfe_hist.completed[FurtherItem] >= 1

(* C23: once background_fun has returned Stop the iterator is dropped and no
   worker obtains another item; the call then returns, with Ok(()) when no
   function returned an error, on an endless iterator too; and on an endless
   iterator without errors no worker thread ends and finished_callback is
   not called while background_fun has not returned. *)
C23_StopFromBackground ==
    /\ [](pfe_main # "idle" /\ pfe_hist.background = "Stop" =>
             ~pfe_state.iterator.live /\ ~pfe_hist.late_item)
    /\ []((pfe_main = "returned" /\ pfe_hist.background = "Stop"
               /\ ~pfe_hist.failed) => pfe_result = PfeOk)
    /\ ((pfe_main # "idle" /\ pfe_hist.background = "Stop")
            ~> pfe_main = "returned")
    /\ [](pfe_main \in {"spawning", "background"}
               /\ pfe_in.shape = "endless" /\ ~pfe_hist.failed =>
             /\ pfe_hist.callbacks = 0
             /\ \A w \in Threads :
                    pfe_pc[w] \in {"unspawned", "spawned", "init_fun",
                                   "relock", "worker_fun"})

C23_Witness ==
    /\ pfe_main = "returned"
    /\ pfe_result = PfeOk
    /\ pfe_hist.background = "Stop"
    /\ pfe_in.shape = "endless"
    /\ pfe_in.items = MaxFairItems
    /\ pfe_in.worker_count = MaxThreads
    /\ pfe_hist.completed[FurtherItem] = 2

(* C27: after the iterator has returned None to a worker no worker polls it
   again, so what UglyIterator would yield after its None is never handed to
   worker_fun; and when a call without errors and without Stop has returned,
   every item before the first None went through worker_fun exactly once. *)
C27_NoPollAfterNone ==
    pfe_main # "idle" =>
        /\ ~pfe_hist.polled_after_none
        /\ pfe_in.shape = "ugly" => pfe_hist.invoked[FurtherItem] = 0
        /\ (pfe_main = "returned" /\ ~pfe_hist.failed
               /\ pfe_hist.background = "Continue") =>
               /\ pfe_hist.none_seen
               /\ \A i \in Items :
                      pfe_hist.invoked[i] = 1 /\ pfe_hist.completed[i] = 1

C27_Witness ==
    /\ pfe_main = "returned"
    /\ pfe_in.shape = "ugly"
    /\ pfe_in.items = MaxItems
    /\ pfe_in.worker_count = MaxThreads
    /\ pfe_hist.none_seen
    /\ pfe_state.iterator.pos = MaxItems + 1
    /\ \A w \in Threads : pfe_ret[w] = PfeOk
    /\ \A i \in Items : pfe_hist.completed[i] = 1

(* ---- renderer ---- *)

(* C24: for every tile, tile_started and tile_finished are called at most
   once, tile_started only for a dispatched tile, the copy into the image
   only after tile_started, and tile_finished only after the copy and after
   the worker fetched its next index; a worker about to call tile_finished
   has the tile's pixels in the image; and when wait() has returned every
   dispatched tile has had both callbacks. *)
C24_TileEventOrder ==
    /\ \A t \in Tiles :
          /\ hist.started[t] <= 1
          /\ hist.finished[t] <= 1
          /\ hist.finished[t] <= image[t]
          /\ image[t] <= hist.started[t]
          /\ hist.started[t] <= hist.dispatched[t]
    /\ \A w \in Workers :
          pc[w] = "tile_finished" =>
              /\ image[tile[w]] = 1
              /\ hist.finished[tile[w]] = 0
              /\ new_tile[w] = tile_ordering_get(new_tile_id[w])
    /\ mainpc = "waited" =>
          \A t \in Tiles :
              /\ hist.started[t] = hist.dispatched[t]
              /\ hist.finished[t] = hist.dispatched[t]

C24_Witness ==
    /\ mainpc = "waited"
    /\ ~hist.aborted
    /\ worker_count = MaxWorkers
    /\ tile_count = MaxTiles
    /\ \A t \in Tiles : hist.finished[t] = 1 /\ image[t] = 1

(* the number of tiles whose pixels are in the shared image *)
CopiedTiles == Cardinality({t \in Tiles : image[t] >= 1})

(* C28: as long as abort() was not called, progress().finished, and the
   finished of the snapshot a worker is about to pass to tile_finished, is
   at most the number of tiles already copied into the image. *)
C28_FinishedLowerBound ==
    ~hist.aborted =>
        /\ progress.finished <= CopiedTiles
        /\ \A w \in Workers :
               pc[w] = "tile_finished" => snapshot(w).finished <= CopiedTiles

C28_Witness ==
    /\ ~hist.aborted
    /\ worker_count = MaxWorkers
    /\ tile_count = MaxTiles
    /\ CopiedTiles = MaxTiles
    /\ progress.finished = CopiedTiles
    /\ \E w \in Workers :
           pc[w] = "tile_finished" /\ snapshot(w).finished >= 1

(* C29: progress().finished never decreases, whatever the workers do and
   whenever abort() is called. *)
C29_ProgressMonotonic ==
    [][progress'.finished >= progress.finished]_vars

(* ---- split_triangles ---- *)

(* the ranges of a frame lie one after another from 0 to the length of the
   slice, none of them empty *)
RangesPartition(f) ==
    /\ Len(f.split_indices) >= 1
    /\ f.split_indices[1].off = 0
    /\ \A k \in 1..Len(f.split_indices) :
          /\ f.split_indices[k].len >= 1
          /\ f.split_indices[k].off + f.split_indices[k].len =
                (IF k = Len(f.split_indices) THEN f.len
                 ELSE f.split_indices[k + 1].off)

(* every range holds the triangles of one root, and no root has two ranges *)
OneRootPerRange(f) ==
    /\ \A k \in 1..Len(f.roots) : Cardinality(f.roots[k]) = 1
    /\ \A j, k \in 1..Len(f.roots) : j # k => f.roots[j] \cap f.roots[k] = {}

(* C25: split_triangles of more than 56 triangles returns at most 8 ranges
   (the collect into the ArrayVec does not overflow); the ranges are
   non-empty, contiguous, disjoint and cover 0..len, and after the sort
   each range holds exactly the triangles of one union-find root. *)
C25_SplitRanges ==
    /\ [][(bpc = "merge" /\ bpc' # "merge") =>
            /\ bpc' = "children"
            /\ Len(builder'.frames[Len(builder'.frames)].split_indices)
                  <= INNER_NODE_CHILDREN]_vars
    /\ [](\A d \in 1..Len(frames) :
             /\ frames[d].len > LEAF_NODE_MAX_TRIANGLES
             /\ RangesPartition(frames[d])
             /\ OneRootPerRange(frames[d]))

C25_Witness ==
    /\ bpc = "children"
    /\ Len(frames) = 1
    /\ frames[1].len = MaxTriangles
    /\ Len(frames[1].split_indices) = INNER_NODE_CHILDREN
    /\ frames[1].split_indices[INNER_NODE_CHILDREN].off
          + frames[1].split_indices[INNER_NODE_CHILDREN].len = MaxTriangles
    /\ \E k \in 1..INNER_NODE_CHILDREN : frames[1].split_indices[k].len > 6

(* C26 as stated: a merge is performed only while more than 2 groups remain
   and either more than 8 remain or the best merge has improvement > 0. *)
C26_MergeOnlyIfStrictlyBetter ==
    (bpc = "merge" /\ split.last_merge # NoMerge) =>
        /\ split.last_merge.groups > 2
        /\ \/ split.last_merge.groups > INNER_NODE_CHILDREN
           \/ split.last_merge.sah_improvement > 0

(* C26, as the loop is written: a merge is performed only while more than 2
   groups remain and either more than 8 remain or the best merge is no
   loss (improvement >= 0); a merge of improvement zero is performed. *)
C26_MergeUnlessLoss ==
    (bpc = "merge" /\ split.last_merge # NoMerge) =>
        /\ split.last_merge.groups > 2
        /\ \/ split.last_merge.groups > INNER_NODE_CHILDREN
           \/ split.last_merge.sah_improvement >= 0

C26_Witness ==
    /\ bpc = "merge"
    /\ split.last_merge = [groups |-> 3, sah_improvement |-> 0]
    /\ Len(split.groups) = 2

(* ---- spiral cursor ---- *)

(* a chunk of the grid over the block: it starts on a multiple of the chunk
   size, is at most chunk_size wide and high, and is smaller only where the
   right or the bottom edge of the block cuts it *)
ClippedChunk(ch) ==
    LET sz == block_size(ch)
        c == chunks_of.chunk_size
    IN /\ (ch.min.x - chunks_of.block.min.x) % c = 0
       /\ (ch.min.y - chunks_of.block.min.y) % c = 0
       /\ sz.width <= c /\ sz.height <= c
       /\ sz.width < c => ch.max.x = chunks_of.block.max.x
       /\ sz.height < c => ch.max.y = chunks_of.block.max.y

(* C30: for a non-empty block and a chunk size >= 1 the cursor is inside
   the chunk grid at every step that yields a chunk, so every yielded chunk
   is non-empty, inside the block, at most chunk_size wide and high and
   smaller only at the right or bottom edge; the assertions of
   current_block hold and the cast of the cursor does not fail. *)
C30_CursorInGrid ==
    (chunks_of.chunk_size >= 1 /\ ~is_empty_or_negative(chunks_of.block)) =>
        /\ spc # "panicked"
        /\ (spc = "iterating" /\ spiral.remaining # 0) =>
              /\ size_contains(spiral.size, spiral.cursor)
              /\ contains_box(spiral.block, current_block(spiral))
              /\ ~is_empty_or_negative(current_block(spiral))
        /\ \A i \in 1..Len(yielded) :
              /\ ~is_empty_or_negative(yielded[i])
              /\ contains_box(chunks_of.block, yielded[i])
              /\ ClippedChunk(yielded[i])

C30_Witness ==
    /\ spc = "done"
    /\ chunks_of.chunk_size = MaxChunk
    /\ block_size(chunks_of.block) = [width |-> MaxChunk + 1, height |-> MaxChunk + 2]
    /\ Len(yielded) = 4
    /\ \E i \in 1..Len(yielded) :
          block_size(yielded[i]) = [width |-> 1, height |-> 2]
    /\ \E i \in 1..Len(yielded) :
          block_size(yielded[i]) = [width |-> MaxChunk, height |-> MaxChunk]

====
